---------------------------- MODULE Spec2Model ----------------------------
(***************************************************************************)
(* The WebSocket connection-management hook of the chat client             *)
(* (chat_ui_frontend/src/hooks/useWebSocket.js) as a state machine.        *)
(*                                                                         *)
(* Everything runs on the browser's single event loop, so every handler    *)
(* (a consumer call, a transport event, a timer callback) is one atomic    *)
(* action.  The hook's refs and React state are the variables; the         *)
(* browser's WebSocket objects and pending timeouts are modelled beside    *)
(* them, because the hook only holds references to them.                   *)
(***************************************************************************)
EXTENDS Integers, Sequences, FiniteSets, TLC

(***************************************************************************)
(* Bounds of the model.                                                    *)
(***************************************************************************)
MaxSockets == 3
MaxSends == 2
MaxAttempts == 7
MaxRetriesFinite == 1
JitterSteps == 20
MaxLen == 5
MaxFrames == 3
MaxAppFrames == 2

(***************************************************************************)
(* Program constants.                                                      *)
(***************************************************************************)
BaseDelayMs == 500
MaxDelayMs == 15000
KeepLast == 200

VARIABLES
    phase,              \* "init" (rendered, effect not run), "mounted", "unmounted"
    shouldReconnect,    \* option shouldReconnect
    maxRetries,         \* option maxRetries: [inf |-> TRUE] is Infinity
    urlOk,              \* whether new WebSocket(resolvedUrl, protocols) succeeds
    sockets,            \* every WebSocket object created so far
    wsRef,              \* wsRef.current: index into sockets, 0 for null
    timers,             \* the browser's pending timeouts: records [id, delay], with
                        \* the attempt number the delay was computed for
    reconnectTimerRef,  \* reconnectTimerRef.current: a timer id, 0 for null
    manualCloseRef,     \* manualCloseRef.current
    attemptsRef,        \* attemptsRef.current
    attempts,           \* React state attempts
    outboundQueueRef,   \* outboundQueueRef.current
    status,             \* React state status
    received,           \* history: the payloads handed to ws.send without a throw, in
                        \* the order of the calls (ws is always wsRef.current)
    nextMsg,            \* history: number of the next accepted send() call
    closedSends,        \* history: ids of payloads accepted while the transport was not open
    preventRequested,   \* history: disconnect({preventReconnect: true}) was called and
                        \* connect() has not been called explicitly since
    lastOp,             \* history: what the last handler was and did
    lastMessage,        \* React state lastMessage
    lastEvent,          \* React state lastEvent
    reported,           \* history: the message events the browser dispatched, in order
    delivered,          \* history: the calls of the consumer's onMessage, in order
    data,               \* the argument of a call of safeParseInbound
    decoded,            \* what that call returned
    container,          \* ChatContainer: its React state and what its effects did
    app,                \* App: its React state, pendingIndexRef and what its effects did
    env,                \* the configuration and page context getWsUrl reads
    resolved            \* what getWsUrl returned

vars == <<phase, shouldReconnect, maxRetries, urlOk, sockets, wsRef, timers,
          reconnectTimerRef, manualCloseRef, attemptsRef, attempts,
          outboundQueueRef, status, received, nextMsg, closedSends,
          preventRequested, lastOp, lastMessage, lastEvent, reported, delivered,
          data, decoded, container, app, env, resolved>>

CONNECTING == "CONNECTING"
OPEN == "OPEN"
CLOSING == "CLOSING"
CLOSED == "CLOSED"

STATUS == [CONNECTING |-> "connecting", CONNECTED |-> "connected",
           DISCONNECTED |-> "disconnected"]

Min(a, b) == IF a <= b THEN a ELSE b
Max(a, b) == IF a >= b THEN a ELSE b

(***************************************************************************)
(* Math.random() is drawn from the grid k / JitterSteps, k in              *)
(* 0 .. JitterSteps-1, which lies in [0, 1).  The state machine samples    *)
(* the two ends and the middle of the grid; the backoff specification      *)
(* draws from all of it.                                                   *)
(***************************************************************************)
FineDraws == 0 .. (JitterSteps - 1)
CoarseDraws == {0, JitterSteps \div 2, JitterSteps - 1}

\* exp of computeBackoffDelay: the un-jittered delay
backoffExp(attempt, baseDelayMs, maxDelayMs) ==
    Min(maxDelayMs, baseDelayMs * 2 ^ Max(0, attempt - 1))

\* Faulty variant of computeBackoffDelay: the exponent is attempt, not
\* attempt - 1.
computeBackoffDelay_ExponentOffByOne(attempt, baseDelayMs, maxDelayMs, k) ==
    LET exp == Min(maxDelayMs, baseDelayMs * 2 ^ Max(0, attempt))
        floored == (exp * (4 * JitterSteps + 2 * k)) \div (5 * JitterSteps)
    IN  Max(0, Min(maxDelayMs, floored))

(***************************************************************************)
(* computeBackoffDelay with Math.random() = k / JitterSteps:               *)
(*   exp + exp * 0.2 * (2k/N - 1) = exp * (4N + 2k) / (5N),                *)
(* floored, then clamped to [0, maxDelayMs].                               *)
(***************************************************************************)
computeBackoffDelay(attempt, baseDelayMs, maxDelayMs, k) ==
    LET exp == backoffExp(attempt, baseDelayMs, maxDelayMs)
        floored == (exp * (4 * JitterSteps + 2 * k)) \div (5 * JitterSteps)
    IN  Max(0, Min(maxDelayMs, floored))

\* Faulty variant: one retry too many is allowed.
ExceedsMaxRetries_OffByOne(nextAttempt, mr) == (~mr.inf) /\ nextAttempt > mr.n + 1

\* nextAttempt > maxRetries, with maxRetries possibly Infinity
ExceedsMaxRetries(nextAttempt, mr) == (~mr.inf) /\ nextAttempt > mr.n

(***************************************************************************)
(* JavaScript values as far as inbound decoding tells them apart: null, a  *)
(* number, an array, a string, and the two binary kinds of event.data.  A  *)
(* string is the sequence of its lexemes (separated by blanks), over an    *)
(* alphabet that spells a fragment of JSON and two words that are not      *)
(* JSON.                                                                   *)
(***************************************************************************)
Null == [t |-> "null"]
Num(n) == [t |-> "num", v |-> n]
Arr(items) == [t |-> "arr", items |-> items]
Str(toks) == [t |-> "str", toks |-> toks]
Blob == [t |-> "blob"]
ArrayBuffer == [t |-> "arraybuffer"]

Alphabet == {"null", "1", "[", "]", ",", "not", "json"}

Texts == UNION {[1 .. n -> Alphabet] : n \in 0 .. MaxLen}

\* what event.data can be
Payloads == {Str(toks) : toks \in Texts} \cup {Blob, ArrayBuffer}

(***************************************************************************)
(* JSON.parse on a lexeme sequence, by recursive descent:                  *)
(*   value ::= null | 1 | [ ] | [ value { , value } ]                      *)
(* ParseValue reads one value from position i; JSONParse throws unless     *)
(* one value spans the whole text.                                         *)
(***************************************************************************)
RECURSIVE ParseValue(_, _)
RECURSIVE ParseElems(_, _, _)

ParseFail == [ok |-> FALSE, val |-> Null, next |-> 0]

ParseValue(toks, i) ==
    IF i > Len(toks) THEN ParseFail
    ELSE IF toks[i] = "null" THEN [ok |-> TRUE, val |-> Null, next |-> i + 1]
    ELSE IF toks[i] = "1" THEN [ok |-> TRUE, val |-> Num(1), next |-> i + 1]
    ELSE IF toks[i] = "["
         THEN IF i + 1 <= Len(toks) /\ toks[i + 1] = "]"
              THEN [ok |-> TRUE, val |-> Arr(<<>>), next |-> i + 2]
              ELSE ParseElems(toks, i + 1, <<>>)
    ELSE ParseFail

ParseElems(toks, i, acc) ==
    LET v == ParseValue(toks, i) IN
    IF ~v.ok \/ v.next > Len(toks) THEN ParseFail
    ELSE IF toks[v.next] = "]"
         THEN [ok |-> TRUE, val |-> Arr(Append(acc, v.val)), next |-> v.next + 1]
    ELSE IF toks[v.next] = ","
         THEN ParseElems(toks, v.next + 1, Append(acc, v.val))
    ELSE ParseFail

JSONParse(toks) ==
    LET v == ParseValue(toks, 1) IN
    IF v.ok /\ v.next = Len(toks) + 1
    THEN [threw |-> FALSE, value |-> v.val]
    ELSE [threw |-> TRUE, value |-> Null]

\* Faulty variant of safeParseInbound: JSON.parse is not inside a try.
safeParseInbound_NoCatch(d) ==
    IF d.t = "str"
    THEN LET p == JSONParse(d.toks) IN
         IF ~p.threw
         THEN [threw |-> FALSE, raw |-> d, json |-> p.value, text |-> Null]
         ELSE [threw |-> TRUE, raw |-> Null, json |-> Null, text |-> Null]
    ELSE [threw |-> FALSE, raw |-> d, json |-> Null, text |-> Null]

(***************************************************************************)
(* safeParseInbound.  The result is the object {raw, json, text}; threw    *)
(* says whether an exception left the function instead.                    *)
(***************************************************************************)
safeParseInbound(d) ==
    IF d.t = "str"
    THEN LET p == JSONParse(d.toks) IN
         IF ~p.threw
         THEN [threw |-> FALSE, raw |-> d, json |-> p.value, text |-> Null]
         ELSE [threw |-> FALSE, raw |-> d, json |-> Null, text |-> d]
    ELSE [threw |-> FALSE, raw |-> d, json |-> Null, text |-> Null]

\* a ?? b ?? c
Coalesce(a, b, c) == IF a # Null THEN a ELSE IF b # Null THEN b ELSE c

\* A message event: the transport it fired on, its number among that
\* transport's events, and event.data.  NoEvent is lastEvent's initial null.
NoEvent == [sock |-> 0, seq |-> 0, data |-> Null]

\* decoded before safeParseInbound has been called
NotDecoded == [threw |-> FALSE, raw |-> Null, json |-> Null, text |-> Null]

(***************************************************************************)
(* The hook's mutable state as one record, so that the helpers the         *)
(* handlers call compose as functions from state to state.  The fields     *)
(* scheduled, connectRan and threw record what a handler did, called the    *)
(* consumer callback it invoked ("none" if it invoked none), cbRaised      *)
(* whether that callback raised.                                           *)
(***************************************************************************)
Cur ==
    [sockets |-> sockets, wsRef |-> wsRef, timers |-> timers,
     reconnectTimerRef |-> reconnectTimerRef, manualCloseRef |-> manualCloseRef,
     attemptsRef |-> attemptsRef, attempts |-> attempts,
     outboundQueueRef |-> outboundQueueRef, status |-> status,
     received |-> received,
     lastMessage |-> lastMessage, lastEvent |-> lastEvent,
     reported |-> reported, delivered |-> delivered,
     scheduled |-> FALSE, connectRan |-> FALSE, threw |-> FALSE,
     called |-> "none", cbRaised |-> FALSE]

(***************************************************************************)
(* A consumer callback (onOpen, onMessage, onError, onClose) either        *)
(* returns or raises.  The hook calls each as                              *)
(*   try { callback(...) } catch { /* ignore handler errors */ }           *)
(* TryCallback is that statement: the state after it, and whether an       *)
(* exception left it (escaped), in which case the rest of the handler      *)
(* does not run.  The statement is guarded by typeof callback ===          *)
(* "function": a consumer that passes no callback has behaviour "absent".  *)
(***************************************************************************)
CallbackBehaviours == {"returns", "raises"}

\* Faulty variant: the call is not inside a try.
TryCallback_NoCatch(st, name, cb) ==
    IF cb = "absent" THEN [st |-> st, escaped |-> FALSE]
    ELSE [st |-> [st EXCEPT !.called = name, !.cbRaised = (cb = "raises")],
          escaped |-> (cb = "raises")]

TryCallback(st, name, cb) ==
    IF cb = "absent" THEN [st |-> st, escaped |-> FALSE]
    ELSE [st |-> [st EXCEPT !.called = name, !.cbRaised = (cb = "raises")],
          escaped |-> FALSE]

\* setTimeout's return value: a positive id no pending timeout has
FreshTimerId(st) ==
    CHOOSE i \in 1 .. (Cardinality(st.timers) + 1) :
        \A t \in st.timers : t.id # i

clearReconnectTimer(st) ==
    IF st.reconnectTimerRef # 0
    THEN [st EXCEPT !.timers = {t \in st.timers : t.id # st.reconnectTimerRef},
                    !.reconnectTimerRef = 0]
    ELSE st

\* ws.close(): an OPEN or CONNECTING socket starts closing; otherwise nothing
CloseSocket(sock) ==
    IF sock.readyState \in {OPEN, CONNECTING}
    THEN [sock EXCEPT !.readyState = CLOSING]
    ELSE sock

\* Faulty variant of cleanupSocket: the reference is dropped and the socket
\* closed, but its handlers stay attached.
cleanupSocket_KeepsHandlers(st) ==
    IF st.wsRef = 0
    THEN st
    ELSE [st EXCEPT !.sockets[st.wsRef] = CloseSocket(@), !.wsRef = 0]

cleanupSocket(st) ==
    IF st.wsRef = 0
    THEN st
    ELSE [st EXCEPT
            !.sockets[st.wsRef] = CloseSocket([@ EXCEPT !.attached = FALSE]),
            !.wsRef = 0]

\* Faulty variant of flushQueue: payloads are taken from the back of the
\* queue (pop instead of shift).
flushQueue_FromBack(st, k) ==
    IF st.wsRef = 0 \/ st.sockets[st.wsRef].readyState # OPEN
    THEN st
    ELSE LET q == st.outboundQueueRef
             n == Min(k, Len(q))
         IN  [st EXCEPT
                !.received = @ \o [i \in 1 .. n |-> q[Len(q) + 1 - i]],
                !.outboundQueueRef = SubSeq(q, 1, Len(q) - n),
                !.threw = (n < Len(q))]

\* Faulty variant of flushQueue: the payload whose transmission throws is
\* not put back.
flushQueue_DropsOnThrow(st, k) ==
    IF st.wsRef = 0 \/ st.sockets[st.wsRef].readyState # OPEN
    THEN st
    ELSE LET q == st.outboundQueueRef
             n == Min(k, Len(q))
         IN  [st EXCEPT
                !.received = @ \o SubSeq(q, 1, n),
                !.outboundQueueRef = SubSeq(q, n + 2, Len(q)),
                !.threw = (n < Len(q))]

(***************************************************************************)
(* flushQueue: the first k queued payloads are transmitted; if k is less   *)
(* than the queue's length, transmitting payload k+1 throws and it is put  *)
(* back at the front.                                                      *)
(***************************************************************************)
flushQueue(st, k) ==
    IF st.wsRef = 0 \/ st.sockets[st.wsRef].readyState # OPEN
    THEN st
    ELSE LET q == st.outboundQueueRef
             n == Min(k, Len(q))
         IN  [st EXCEPT
                !.received = @ \o SubSeq(q, 1, n),
                !.outboundQueueRef = SubSeq(q, n + 1, Len(q)),
                !.threw = (n < Len(q))]

\* Faulty variant of scheduleReconnect: the delay is computed from the
\* attempt counter before it is incremented.
scheduleReconnect_DelayBeforeIncrement(st, r) ==
    IF ~shouldReconnect THEN st
    ELSE IF st.manualCloseRef THEN st
    ELSE LET nextAttempt == st.attemptsRef + 1 IN
         IF ExceedsMaxRetries(nextAttempt, maxRetries)
         THEN [st EXCEPT !.status = STATUS.DISCONNECTED]
         ELSE LET delay == computeBackoffDelay(st.attemptsRef, BaseDelayMs, MaxDelayMs, r)
                  s1 == clearReconnectTimer(
                            [st EXCEPT !.attemptsRef = nextAttempt,
                                       !.attempts = nextAttempt])
                  id == FreshTimerId(s1)
              IN  [s1 EXCEPT !.timers = @ \cup {[id |-> id, delay |-> delay,
                                                attempt |-> st.attemptsRef]},
                             !.reconnectTimerRef = id,
                             !.scheduled = TRUE]

\* Faulty variant of scheduleReconnect: the option shouldReconnect is not
\* consulted.
scheduleReconnect_IgnoresOption(st, r) ==
    IF st.manualCloseRef THEN st
    ELSE LET nextAttempt == st.attemptsRef + 1 IN
         IF ExceedsMaxRetries(nextAttempt, maxRetries)
         THEN [st EXCEPT !.status = STATUS.DISCONNECTED]
         ELSE LET delay == computeBackoffDelay(nextAttempt, BaseDelayMs, MaxDelayMs, r)
                  s1 == clearReconnectTimer(
                            [st EXCEPT !.attemptsRef = nextAttempt,
                                       !.attempts = nextAttempt])
                  id == FreshTimerId(s1)
              IN  [s1 EXCEPT !.timers = @ \cup {[id |-> id, delay |-> delay,
                                                attempt |-> nextAttempt]},
                             !.reconnectTimerRef = id,
                             !.scheduled = TRUE]

scheduleReconnect(st, r) ==
    IF ~shouldReconnect THEN st
    ELSE IF st.manualCloseRef THEN st
    ELSE LET nextAttempt == st.attemptsRef + 1 IN
         IF ExceedsMaxRetries(nextAttempt, maxRetries)
         THEN [st EXCEPT !.status = STATUS.DISCONNECTED]
         ELSE LET delay == computeBackoffDelay(nextAttempt, BaseDelayMs, MaxDelayMs, r)
                  s1 == clearReconnectTimer(
                            [st EXCEPT !.attemptsRef = nextAttempt,
                                       !.attempts = nextAttempt])
                  id == FreshTimerId(s1)
              IN  [s1 EXCEPT !.timers = @ \cup {[id |-> id, delay |-> delay,
                                                attempt |-> nextAttempt]},
                             !.reconnectTimerRef = id,
                             !.scheduled = TRUE]

\* Faulty variant of connect: the pending reconnect timer is left running.
connect_KeepsTimer(st, r) ==
    LET s1 == [st EXCEPT !.manualCloseRef = FALSE, !.connectRan = TRUE]
        s2 == cleanupSocket(s1)
        s4 == [s2 EXCEPT !.status = STATUS.CONNECTING]
    IN  IF urlOk
        THEN [s4 EXCEPT
                !.sockets = Append(@, [readyState |-> CONNECTING, attached |-> TRUE]),
                !.wsRef = Len(s4.sockets) + 1]
        ELSE scheduleReconnect([s4 EXCEPT !.status = STATUS.DISCONNECTED], r)

\* Faulty variant of connect: the attempt counter is reset.
connect_ResetsAttempts(st, r) ==
    LET s1 == [st EXCEPT !.manualCloseRef = FALSE, !.connectRan = TRUE,
                         !.attemptsRef = 0, !.attempts = 0]
        s2 == cleanupSocket(s1)
        s3 == clearReconnectTimer(s2)
        s4 == [s3 EXCEPT !.status = STATUS.CONNECTING]
    IN  IF urlOk
        THEN [s4 EXCEPT
                !.sockets = Append(@, [readyState |-> CONNECTING, attached |-> TRUE]),
                !.wsRef = Len(s4.sockets) + 1]
        ELSE scheduleReconnect([s4 EXCEPT !.status = STATUS.DISCONNECTED], r)

\* Faulty variant of connect: the catch of a failed construction sets the
\* status but schedules no reconnect.
connect_CatchWithoutReconnect(st, r) ==
    LET s1 == [st EXCEPT !.manualCloseRef = FALSE, !.connectRan = TRUE]
        s2 == cleanupSocket(s1)
        s3 == clearReconnectTimer(s2)
        s4 == [s3 EXCEPT !.status = STATUS.CONNECTING]
    IN  IF urlOk
        THEN [s4 EXCEPT
                !.sockets = Append(@, [readyState |-> CONNECTING, attached |-> TRUE]),
                !.wsRef = Len(s4.sockets) + 1]
        ELSE [s4 EXCEPT !.status = STATUS.DISCONNECTED]

(***************************************************************************)
(* connect().  new WebSocket(resolvedUrl, protocols) throws for a URL or   *)
(* protocol list the browser rejects (urlOk is FALSE); the catch then      *)
(* sets the status and calls scheduleReconnect.                            *)
(***************************************************************************)
connect(st, r) ==
    LET s1 == [st EXCEPT !.manualCloseRef = FALSE, !.connectRan = TRUE]
        s2 == cleanupSocket(s1)
        s3 == clearReconnectTimer(s2)
        s4 == [s3 EXCEPT !.status = STATUS.CONNECTING]
    IN  IF urlOk
        THEN [s4 EXCEPT
                !.sockets = Append(@, [readyState |-> CONNECTING, attached |-> TRUE]),
                !.wsRef = Len(s4.sockets) + 1]
        ELSE scheduleReconnect([s4 EXCEPT !.status = STATUS.DISCONNECTED], r)

\* Faulty variant of ws.onopen: the attempt counter is not reset.
onopen_NoReset(st, k) ==
    flushQueue([st EXCEPT !.status = STATUS.CONNECTED, !.called = "onOpen"], k)

\* Faulty variant of ws.onopen: the ref is reset but setAttempts(0) is missing.
onopenCb_ResetsRefOnly(st, k, cb) ==
    LET s1 == [st EXCEPT !.attemptsRef = 0, !.status = STATUS.CONNECTED]
        c == TryCallback(s1, "onOpen", cb)
    IN  IF c.escaped THEN c.st ELSE flushQueue(c.st, k)

\* ws.onopen, the consumer's onOpen behaving as cb
onopenCb(st, k, cb) ==
    LET s1 == [st EXCEPT !.attemptsRef = 0, !.attempts = 0,
                         !.status = STATUS.CONNECTED]
        c == TryCallback(s1, "onOpen", cb)
    IN  IF c.escaped THEN c.st ELSE flushQueue(c.st, k)

\* ws.onopen with a callback that returns
onopen(st, k) == onopenCb(st, k, "returns")

\* Faulty variant of ws.onerror: the error itself schedules a reconnect.
onerror_SchedulesReconnect(st) ==
    scheduleReconnect([st EXCEPT !.called = "onError"], 0)

\* ws.onerror: only the consumer's callback runs
onerrorCb(st, cb) == TryCallback(st, "onError", cb).st

onerror(st) == onerrorCb(st, "returns")

\* Faulty variant of ws.onmessage: the listener is called only for frames
\* that decode as JSON.
onmessage_ListenerForJsonOnly(st, ev) ==
    LET parsed == safeParseInbound(ev.data)
        value == Coalesce(parsed.json, parsed.text, parsed.raw)
        s1 == [st EXCEPT !.lastEvent = ev, !.lastMessage = value]
    IN  IF parsed.json # Null
        THEN [s1 EXCEPT !.delivered = Append(@, [event |-> ev, data |-> value,
                                                 parsed |-> parsed]),
                        !.called = "onMessage"]
        ELSE s1

\* ws.onmessage after safeParseInbound(event.data) returned parsed: set
\* lastEvent and lastMessage, call the listener
onmessageParsed(st, ev, parsed, cb) ==
    LET value == Coalesce(parsed.json, parsed.text, parsed.raw)
        s1 == [st EXCEPT !.lastEvent = ev, !.lastMessage = value]
        s2 == IF cb = "absent" THEN s1
              ELSE [s1 EXCEPT !.delivered = Append(@, [event |-> ev, data |-> value,
                                                       parsed |-> parsed])]
    IN  TryCallback(s2, "onMessage", cb).st

\* ws.onmessage
onmessageCb(st, ev, cb) == onmessageParsed(st, ev, safeParseInbound(ev.data), cb)

onmessage(st, ev) == onmessageCb(st, ev, "returns")

\* Faulty variant of ws.onclose: no reconnect is scheduled.
onclose_NoReconnect(st, r) ==
    cleanupSocket([st EXCEPT !.status = STATUS.DISCONNECTED,
                             !.called = "onClose"])

\* What the body of a consumer callback does to the hook: nothing, unless it
\* is a callback that calls connect() ("connect").
CallbackBody(st, cb, r) == IF cb = "connect" THEN connect(st, r) ELSE st

\* Faulty variant of ws.onclose: cleanupSocket() is not called, the closed
\* transport stays referenced.
oncloseCb_KeepsTransport(st, r, cb) ==
    LET c == TryCallback([st EXCEPT !.status = STATUS.DISCONNECTED], "onClose", cb)
        s1 == CallbackBody(c.st, cb, r)
    IN  IF c.escaped THEN c.st
        ELSE IF (~s1.manualCloseRef) /\ shouldReconnect
             THEN scheduleReconnect(s1, r)
             ELSE s1

\* ws.onclose, the consumer's onClose behaving as cb
oncloseCb(st, r, cb) ==
    LET c == TryCallback([st EXCEPT !.status = STATUS.DISCONNECTED], "onClose", cb)
        s1 == cleanupSocket(CallbackBody(c.st, cb, r))
    IN  IF c.escaped THEN c.st
        ELSE IF (~s1.manualCloseRef) /\ shouldReconnect
             THEN scheduleReconnect(s1, r)
             ELSE s1

\* ws.onclose with a callback that returns
onclose(st, r) == oncloseCb(st, r, "returns")

\* Faulty variant of disconnect: the pending reconnect timer is not cleared.
disconnect_KeepsTimer(st, preventReconnect) ==
    LET s1 == [st EXCEPT !.manualCloseRef = preventReconnect]
        s2 == IF s1.wsRef # 0
              THEN [s1 EXCEPT !.sockets[s1.wsRef] = CloseSocket(@)]
              ELSE s1
    IN  [cleanupSocket(s2) EXCEPT !.status = STATUS.DISCONNECTED]

\* Faulty variant of disconnect: the transport is closed but cleanupSocket()
\* is not called, so its handlers stay attached.
disconnect_SkipsCleanup(st, preventReconnect) ==
    LET s1 == clearReconnectTimer([st EXCEPT !.manualCloseRef = preventReconnect])
        s2 == IF s1.wsRef # 0
              THEN [s1 EXCEPT !.sockets[s1.wsRef] = CloseSocket(@)]
              ELSE s1
    IN  [s2 EXCEPT !.status = STATUS.DISCONNECTED]

disconnect(st, preventReconnect) ==
    LET s1 == clearReconnectTimer([st EXCEPT !.manualCloseRef = preventReconnect])
        s2 == IF s1.wsRef # 0
              THEN [s1 EXCEPT !.sockets[s1.wsRef] = CloseSocket(@)]
              ELSE s1
    IN  [cleanupSocket(s2) EXCEPT !.status = STATUS.DISCONNECTED]

(***************************************************************************)
(* A message handed to send() is a string, a serializable value, or a      *)
(* value JSON.stringify throws on (a cyclic object, a BigInt).  The        *)
(* consumer's n-th message is a string for odd n and an object for even    *)
(* n; at any time it may also hand over a value that does not serialize.   *)
(***************************************************************************)
MsgKinds(n) == {IF n % 2 = 1 THEN "string" ELSE "object", "cyclic"}

SerializeThrows(msg) == msg.kind = "cyclic"

\* the payload of send(): the string itself, or its JSON encoding
Serialize(msg) ==
    IF msg.kind = "string"
    THEN [id |-> msg.id, enc |-> "text"]
    ELSE [id |-> msg.id, enc |-> "json"]

\* send() after serialization: transmit now, or enqueue and perhaps connect.
\* throws says whether ws.send(payload) throws.
\* Faulty variant: the manual-close flag is not consulted.
sendPayload_IgnoresManualClose(st, payload, throws, r) ==
    LET ws == st.wsRef IN
    IF ws # 0 /\ st.sockets[ws].readyState = OPEN
    THEN IF ~throws
         THEN [st |-> [st EXCEPT !.received = Append(@, payload)],
               ret |-> TRUE, accepted |-> TRUE]
         ELSE [st |-> [st EXCEPT !.outboundQueueRef = Append(@, payload),
                                 !.threw = TRUE],
               ret |-> FALSE, accepted |-> TRUE]
    ELSE LET s1 == [st EXCEPT !.outboundQueueRef = Append(@, payload)]
             s2 == IF ws = 0 \/ st.sockets[ws].readyState = CLOSED
                   THEN connect(s1, r)
                   ELSE s1
         IN  [st |-> s2, ret |-> FALSE, accepted |-> TRUE]

\* Faulty variant: a connect is started also while the held transport is
\* still connecting or closing.
sendPayload_ConnectsWheneverNotOpen(st, payload, throws, r) ==
    LET ws == st.wsRef IN
    IF ws # 0 /\ st.sockets[ws].readyState = OPEN
    THEN IF ~throws
         THEN [st |-> [st EXCEPT !.received = Append(@, payload)],
               ret |-> TRUE, accepted |-> TRUE]
         ELSE [st |-> [st EXCEPT !.outboundQueueRef = Append(@, payload),
                                 !.threw = TRUE],
               ret |-> FALSE, accepted |-> TRUE]
    ELSE LET s1 == [st EXCEPT !.outboundQueueRef = Append(@, payload)]
             s2 == IF ~s1.manualCloseRef
                   THEN connect(s1, r)
                   ELSE s1
         IN  [st |-> s2, ret |-> FALSE, accepted |-> TRUE]

\* Faulty variant: a payload that was only enqueued is reported as sent.
sendPayload_TrueWhenQueued(st, payload, throws, r) ==
    LET ws == st.wsRef IN
    IF ws # 0 /\ st.sockets[ws].readyState = OPEN
    THEN IF ~throws
         THEN [st |-> [st EXCEPT !.received = Append(@, payload)],
               ret |-> TRUE, accepted |-> TRUE]
         ELSE [st |-> [st EXCEPT !.outboundQueueRef = Append(@, payload),
                                 !.threw = TRUE],
               ret |-> FALSE, accepted |-> TRUE]
    ELSE LET s1 == [st EXCEPT !.outboundQueueRef = Append(@, payload)]
             s2 == IF (ws = 0 \/ st.sockets[ws].readyState = CLOSED)
                      /\ ~s1.manualCloseRef
                   THEN connect(s1, r)
                   ELSE s1
         IN  [st |-> s2, ret |-> TRUE, accepted |-> TRUE]

sendPayload(st, payload, throws, r) ==
    LET ws == st.wsRef IN
    IF ws # 0 /\ st.sockets[ws].readyState = OPEN
    THEN IF ~throws
         THEN [st |-> [st EXCEPT !.received = Append(@, payload)],
               ret |-> TRUE, accepted |-> TRUE]
         ELSE [st |-> [st EXCEPT !.outboundQueueRef = Append(@, payload),
                                 !.threw = TRUE],
               ret |-> FALSE, accepted |-> TRUE]
    ELSE LET s1 == [st EXCEPT !.outboundQueueRef = Append(@, payload)]
             s2 == IF (ws = 0 \/ st.sockets[ws].readyState = CLOSED)
                      /\ ~s1.manualCloseRef
                   THEN connect(s1, r)
                   ELSE s1
         IN  [st |-> s2, ret |-> FALSE, accepted |-> TRUE]

\* Faulty variant of send: the connect of a closed hook is triggered before
\* the message is serialized.
send_ConnectsBeforeSerializing(st, msg, throws, r) ==
    LET ws == st.wsRef
        s0 == IF (ws = 0 \/ st.sockets[ws].readyState = CLOSED) /\ ~st.manualCloseRef
              THEN connect(st, r)
              ELSE st
    IN  IF SerializeThrows(msg)
        THEN [st |-> s0, ret |-> FALSE, accepted |-> FALSE]
        ELSE sendPayload(st, Serialize(msg), throws, r)

\* send(): [st, ret, accepted]
send(st, msg, throws, r) ==
    IF SerializeThrows(msg)
    THEN [st |-> st, ret |-> FALSE, accepted |-> FALSE]
    ELSE sendPayload(st, Serialize(msg), throws, r)

\* ws.onopen with an onOpen callback that calls send(msg): the callback runs
\* after the status is set and before flushQueue(); [st, accepted] with st
\* the state before the drain
onopenSending(st, msg, throws, r) ==
    LET s1 == [st EXCEPT !.attemptsRef = 0, !.attempts = 0,
                         !.status = STATUS.CONNECTED]
        c == TryCallback(s1, "onOpen", "returns")
        res == send(c.st, msg, throws, r)
    IN  [st |-> res.st, accepted |-> res.accepted]

(***************************************************************************)
(* The state machine.                                                      *)
(***************************************************************************)
WithinBounds(st) ==
    /\ Len(st.sockets) <= MaxSockets
    /\ st.attemptsRef <= MaxAttempts

CommitHook(st, op, ret) ==
    /\ WithinBounds(st)
    /\ sockets' = st.sockets
    /\ wsRef' = st.wsRef
    /\ timers' = st.timers
    /\ reconnectTimerRef' = st.reconnectTimerRef
    /\ manualCloseRef' = st.manualCloseRef
    /\ attemptsRef' = st.attemptsRef
    /\ attempts' = st.attempts
    /\ outboundQueueRef' = st.outboundQueueRef
    /\ status' = st.status
    /\ received' = st.received
    /\ lastMessage' = st.lastMessage
    /\ lastEvent' = st.lastEvent
    /\ reported' = st.reported
    /\ delivered' = st.delivered
    /\ lastOp' = [op |-> op, ret |-> ret, scheduled |-> st.scheduled,
                  connectRan |-> st.connectRan, threw |-> st.threw,
                  called |-> st.called, cbRaised |-> st.cbRaised,
                  prevStatus |-> status, prevAttempts |-> attemptsRef]

\* a step of the hook alone
Commit(st, op, ret) ==
    /\ CommitHook(st, op, ret)
    /\ UNCHANGED <<data, decoded, container, app, env, resolved>>

Options == <<shouldReconnect, maxRetries, urlOk>>

\* ChatContainer before its first render
ContainerInit ==
    [subscription |-> "pending", inbox |-> <<>>, messages |-> <<>>, pendingMap |-> <<>>,
     historyLoaded |-> FALSE, last |-> [op |-> "none"]]

\* App before its first render; last is what its last handler or effect did
AppInit ==
    [effectsRan |-> FALSE, messages |-> <<>>, pendingIndexRef |-> <<>>,
     historyLoaded |-> FALSE, last |-> [op |-> "none"]]

UiIdle == container = ContainerInit /\ app = AppInit

\* no configuration, no window
NoEnv == [wsUrl |-> <<>>, apiBase |-> <<>>, backend |-> <<>>,
          page |-> [window |-> FALSE, protocol |-> "", host |-> ""]]

\* getWsUrl not called
Unresolved == [called |-> FALSE, threw |-> FALSE, url |-> <<>>]

EnvIdle == env = NoEnv /\ resolved = Unresolved

Init ==
    /\ phase = "init"
    /\ shouldReconnect \in BOOLEAN
    /\ maxRetries \in {[inf |-> TRUE, n |-> 0], [inf |-> FALSE, n |-> MaxRetriesFinite]}
    /\ urlOk \in BOOLEAN
    /\ sockets = <<>>
    /\ wsRef = 0
    /\ timers = {}
    /\ reconnectTimerRef = 0
    /\ manualCloseRef = FALSE
    /\ attemptsRef = 0
    /\ attempts = 0
    /\ outboundQueueRef = <<>>
    /\ status = STATUS.DISCONNECTED
    /\ received = <<>>
    /\ nextMsg = 1
    /\ closedSends = {}
    /\ preventRequested = FALSE
    /\ lastMessage = Null
    /\ lastEvent = NoEvent
    /\ reported = <<>>
    /\ delivered = <<>>
    /\ lastOp = [op |-> "init", ret |-> FALSE, scheduled |-> FALSE,
                 connectRan |-> FALSE, threw |-> FALSE, called |-> "none",
                 cbRaised |-> FALSE,
                 prevStatus |-> STATUS.DISCONNECTED, prevAttempts |-> 0]
    /\ data = Null
    /\ decoded = NotDecoded
    /\ UiIdle
    /\ EnvIdle

\* the mount effect: connect() if autoConnect
Mount(autoConnect, r) ==
    /\ phase = "init"
    /\ phase' = "mounted"
    /\ Commit(IF autoConnect THEN connect(Cur, r) ELSE Cur, "mount", FALSE)
    /\ UNCHANGED <<Options, nextMsg, closedSends, preventRequested>>

\* Faulty variant of the cleanup: the pending reconnect timer is left alone.
Unmount_LeavesTimer ==
    /\ phase = "mounted"
    /\ phase' = "unmounted"
    /\ Commit(cleanupSocket([Cur EXCEPT !.manualCloseRef = TRUE]), "unmount", FALSE)
    /\ UNCHANGED <<Options, nextMsg, closedSends, preventRequested>>

\* the effect's cleanup
Unmount ==
    /\ phase = "mounted"
    /\ phase' = "unmounted"
    /\ Commit(cleanupSocket([clearReconnectTimer(Cur) EXCEPT !.manualCloseRef = TRUE]),
              "unmount", FALSE)
    /\ UNCHANGED <<Options, nextMsg, closedSends, preventRequested>>

Connect(r) ==
    /\ phase = "mounted"
    /\ Commit(connect(Cur, r), "connect", FALSE)
    /\ preventRequested' = FALSE
    /\ UNCHANGED <<phase, Options, nextMsg, closedSends>>

Disconnect(preventReconnect) ==
    /\ phase = "mounted"
    /\ Commit(disconnect(Cur, preventReconnect),
              IF preventReconnect THEN "disconnect" ELSE "disconnectKeep", FALSE)
    /\ preventRequested' = (preventRequested \/ preventReconnect)
    /\ UNCHANGED <<phase, Options, nextMsg, closedSends>>

Send(kind, throws, r) ==
    /\ phase = "mounted"
    /\ nextMsg <= MaxSends
    /\ LET res == send(Cur, [id |-> nextMsg, kind |-> kind], throws, r)
           wasOpen == wsRef # 0 /\ sockets[wsRef].readyState = OPEN
       IN  /\ throws => (wasOpen /\ res.accepted)
           /\ Commit(res.st, IF kind = "cyclic" THEN "sendCyclic" ELSE "send", res.ret)
           /\ nextMsg' = IF res.accepted THEN nextMsg + 1 ELSE nextMsg
           /\ closedSends' = IF res.accepted /\ ~wasOpen
                             THEN closedSends \cup {nextMsg}
                             ELSE closedSends
    /\ UNCHANGED <<phase, Options, preventRequested>>

\* the browser fires open on a connecting socket
TransportOpenCb(s, k, cb) ==
    /\ s \in 1 .. Len(sockets)
    /\ sockets[s].readyState = CONNECTING
    /\ LET s1 == [Cur EXCEPT !.sockets[s].readyState = OPEN]
       IN  /\ k \in 0 .. Len(outboundQueueRef)
           /\ IF sockets[s].attached
              THEN Commit(onopenCb(s1, k, cb), "open", FALSE)
              ELSE k = 0 /\ cb = "returns" /\ Commit(s1, "openDetached", FALSE)
    /\ UNCHANGED <<phase, Options, nextMsg, closedSends, preventRequested>>

\* the browser fires open on the held connecting socket and the consumer's
\* onOpen callback sends its next message
TransportOpenSends(s, k, kind, throws, r) ==
    /\ s \in 1 .. Len(sockets)
    /\ sockets[s].readyState = CONNECTING
    /\ sockets[s].attached
    /\ nextMsg <= MaxSends
    /\ LET s1 == [Cur EXCEPT !.sockets[s].readyState = OPEN]
           res == onopenSending(s1, [id |-> nextMsg, kind |-> kind], throws, r)
       IN  /\ throws => res.accepted
           /\ k \in 0 .. Len(res.st.outboundQueueRef)
           /\ Commit(flushQueue(res.st, k), "openSends", FALSE)
           /\ nextMsg' = IF res.accepted THEN nextMsg + 1 ELSE nextMsg
    /\ UNCHANGED <<phase, Options, closedSends, preventRequested>>

TransportOpen(s, k) ==
    /\ s \in 1 .. Len(sockets)
    /\ sockets[s].readyState = CONNECTING
    /\ LET s1 == [Cur EXCEPT !.sockets[s].readyState = OPEN]
       IN  /\ k \in 0 .. Len(outboundQueueRef)
           /\ IF sockets[s].attached
              THEN Commit(onopen(s1, k), "open", FALSE)
              ELSE k = 0 /\ Commit(s1, "openDetached", FALSE)
    /\ UNCHANGED <<phase, Options, nextMsg, closedSends, preventRequested>>

\* the server starts the closing handshake of an open socket
TransportClosing(s) ==
    /\ s \in 1 .. Len(sockets)
    /\ sockets[s].readyState = OPEN
    /\ Commit([Cur EXCEPT !.sockets[s].readyState = CLOSING], "closing", FALSE)
    /\ UNCHANGED <<phase, Options, nextMsg, closedSends, preventRequested>>

\* the browser fires error on a socket that has a handler
TransportErrorCb(s, cb) ==
    /\ s \in 1 .. Len(sockets)
    /\ sockets[s].readyState # CLOSED
    /\ sockets[s].attached
    /\ Commit(onerrorCb(Cur, cb), "error", FALSE)
    /\ UNCHANGED <<phase, Options, nextMsg, closedSends, preventRequested>>

TransportError(s) ==
    /\ s \in 1 .. Len(sockets)
    /\ sockets[s].readyState # CLOSED
    /\ sockets[s].attached
    /\ Commit(onerror(Cur), "error", FALSE)
    /\ UNCHANGED <<phase, Options, nextMsg, closedSends, preventRequested>>

(***************************************************************************)
(* The browser dispatches a message event on a socket.  Frames that reach  *)
(* the client while the closing handshake is under way may or may not be   *)
(* dispatched, so a CLOSING socket can still fire the event.  The n-th     *)
(* event of a run carries FrameData(n).                                    *)
(***************************************************************************)
FrameData(n) ==
    IF n % 4 = 1 THEN Str(<<"[", "1", "]">>)
    ELSE IF n % 4 = 2 THEN Str(<<"not", "json">>)
    ELSE IF n % 4 = 3 THEN Blob
    ELSE Str(<<"null">>)

FramesOn(s) == Cardinality({i \in 1 .. Len(reported) : reported[i].event.sock = s})

TransportMessageCb(s, cb) ==
    /\ s \in 1 .. Len(sockets)
    /\ sockets[s].readyState \in {OPEN, CLOSING}
    /\ Len(reported) < MaxFrames
    /\ LET ev == [sock |-> s, seq |-> FramesOn(s) + 1,
                  data |-> FrameData(Len(reported) + 1)]
           s1 == [Cur EXCEPT !.reported = Append(@, [event |-> ev, held |-> (wsRef = s)])]
       IN  IF sockets[s].attached
           THEN Commit(onmessageCb(s1, ev, cb), "message", FALSE)
           ELSE cb = "returns" /\ Commit(s1, "messageDetached", FALSE)
    /\ UNCHANGED <<phase, Options, nextMsg, closedSends, preventRequested>>

TransportMessage(s) ==
    /\ s \in 1 .. Len(sockets)
    /\ sockets[s].readyState \in {OPEN, CLOSING}
    /\ Len(reported) < MaxFrames
    /\ LET ev == [sock |-> s, seq |-> FramesOn(s) + 1,
                  data |-> FrameData(Len(reported) + 1)]
           s1 == [Cur EXCEPT !.reported = Append(@, [event |-> ev, held |-> (wsRef = s)])]
       IN  IF sockets[s].attached
           THEN Commit(onmessage(s1, ev), "message", FALSE)
           ELSE Commit(s1, "messageDetached", FALSE)
    /\ UNCHANGED <<phase, Options, nextMsg, closedSends, preventRequested>>

\* the connection of a socket ends: readyState CLOSED, then the close event
TransportCloseCb(s, r, cb) ==
    /\ s \in 1 .. Len(sockets)
    /\ sockets[s].readyState # CLOSED
    /\ LET s1 == [Cur EXCEPT !.sockets[s].readyState = CLOSED]
       IN  IF sockets[s].attached
           THEN Commit(oncloseCb(s1, r, cb), "close", FALSE)
           ELSE cb = "returns" /\ Commit(s1, "closeDetached", FALSE)
    /\ UNCHANGED <<phase, Options, nextMsg, closedSends, preventRequested>>

TransportClose(s, r) ==
    /\ s \in 1 .. Len(sockets)
    /\ sockets[s].readyState # CLOSED
    /\ LET s1 == [Cur EXCEPT !.sockets[s].readyState = CLOSED]
       IN  IF sockets[s].attached
           THEN Commit(onclose(s1, r), "close", FALSE)
           ELSE Commit(s1, "closeDetached", FALSE)
    /\ UNCHANGED <<phase, Options, nextMsg, closedSends, preventRequested>>

\* a pending timeout fires: the callback of scheduleReconnect calls connect()
TimerFire(t, r) ==
    /\ t \in timers
    /\ Commit(connect([Cur EXCEPT !.timers = @ \ {t}], r), "timer", FALSE)
    /\ UNCHANGED <<phase, Options, nextMsg, closedSends, preventRequested>>

NextOver(Draws) ==
    \/ \E a \in BOOLEAN, r \in Draws : Mount(a, r)
    \/ Unmount
    \/ \E r \in Draws : Connect(r)
    \/ \E p \in BOOLEAN : Disconnect(p)
    \/ \E kind \in MsgKinds(nextMsg), throws \in BOOLEAN, r \in Draws :
          Send(kind, throws, r)
    \/ \E s \in 1 .. MaxSockets, k \in 0 .. MaxSends : TransportOpen(s, k)
    \/ \E s \in 1 .. MaxSockets : TransportClosing(s)
    \/ \E s \in 1 .. MaxSockets : TransportError(s)
    \/ \E s \in 1 .. MaxSockets, r \in Draws : TransportClose(s, r)
    \/ \E t \in timers, r \in Draws : TimerFire(t, r)

Next == NextOver(CoarseDraws)

Spec == Init /\ [][Next]_vars

(***************************************************************************)
(* The reconnect loop alone, with the jitter drawn from the whole grid:    *)
(* the hook mounts and the transport keeps failing (or opens and fails).   *)
(***************************************************************************)
NextBackoff ==
    \/ \E a \in BOOLEAN, r \in FineDraws : Mount(a, r)
    \/ \E s \in 1 .. MaxSockets, k \in 0 .. MaxSends : TransportOpen(s, k)
    \/ \E s \in 1 .. MaxSockets, r \in FineDraws : TransportClose(s, r)
    \/ \E t \in timers, r \in FineDraws : TimerFire(t, r)

SpecBackoff == Init /\ [][NextBackoff]_vars

(***************************************************************************)
(* The state machine with the browser's guarantee that a pending timeout   *)
(* is eventually run: the callback scheduleReconnect passed to setTimeout  *)
(* fires unless clearTimeout removed it first.  Nothing is assumed of the  *)
(* consumer or of the server.  Whether a timer fires does not depend on    *)
(* its delay, so Math.random() is drawn at the middle of the grid only.    *)
(***************************************************************************)
MidDraw == {JitterSteps \div 2}

NextFair == NextOver(MidDraw)

TimerFires == \E t \in timers, r \in MidDraw : TimerFire(t, r)

SpecFair == Init /\ [][NextFair]_vars /\ WF_vars(TimerFires)


(***************************************************************************)
(* The connection's life cycle with inbound frames: everything but send(), *)
(* which does not touch what onmessage reads or writes.                    *)
(***************************************************************************)
NextInbound ==
    \/ \E a \in BOOLEAN, r \in MidDraw : Mount(a, r)
    \/ Unmount
    \/ \E r \in MidDraw : Connect(r)
    \/ \E p \in BOOLEAN : Disconnect(p)
    \/ \E s \in 1 .. MaxSockets : TransportOpen(s, 0)
    \/ \E s \in 1 .. MaxSockets : TransportClosing(s)
    \/ \E s \in 1 .. MaxSockets : TransportMessage(s)
    \/ \E s \in 1 .. MaxSockets : TransportError(s)
    \/ \E s \in 1 .. MaxSockets, r \in MidDraw : TransportClose(s, r)
    \/ \E t \in timers, r \in MidDraw : TimerFire(t, r)

\* the options as the application passes them: reconnection enabled, no
\* retry limit, a URL the constructor accepts
InitInbound ==
    /\ Init
    /\ shouldReconnect
    /\ maxRetries.inf
    /\ urlOk

SpecInbound == InitInbound /\ [][NextInbound]_vars

(***************************************************************************)
(* The hook with consumer callbacks that may raise: every event handler    *)
(* runs with a callback that returns or one that raises.  The consumer is   *)
(* the application's: it mounts the hook, sends, and unmounts it, and      *)
(* calls neither connect() nor disconnect() itself.                        *)
(***************************************************************************)
NextCallbacks ==
    \/ \E a \in BOOLEAN, r \in MidDraw : Mount(a, r)
    \/ Unmount
    \/ \E kind \in MsgKinds(nextMsg), r \in MidDraw : Send(kind, FALSE, r)
    \/ \E s \in 1 .. MaxSockets, k \in 0 .. MaxSends, cb \in CallbackBehaviours :
          TransportOpenCb(s, k, cb)
    \/ \E s \in 1 .. MaxSockets, cb \in CallbackBehaviours : TransportMessageCb(s, cb)
    \/ \E s \in 1 .. MaxSockets, cb \in CallbackBehaviours : TransportErrorCb(s, cb)
    \/ \E s \in 1 .. MaxSockets, r \in MidDraw, cb \in CallbackBehaviours :
          TransportCloseCb(s, r, cb)
    \/ \E t \in timers, r \in MidDraw : TimerFire(t, r)

SpecCallbacks == InitInbound /\ [][NextCallbacks]_vars

(***************************************************************************)
(* The hook with callbacks that call back into it: an onOpen callback that  *)
(* may call send() and an onClose callback that may call connect() while   *)
(* the event is being handled.  The connection opens, closes, and is       *)
(* re-established by the callback or by the reconnect timer.               *)
(***************************************************************************)
CloseCallbacks == {"returns", "connect"}

NextReentrant ==
    \/ \E r \in MidDraw : Mount(TRUE, r)
    \/ Unmount
    \/ \E kind \in MsgKinds(nextMsg), throws \in BOOLEAN, r \in MidDraw :
          Send(kind, throws, r)
    \/ \E s \in 1 .. MaxSockets, k \in 0 .. MaxSends : TransportOpen(s, k)
    \/ \E s \in 1 .. MaxSockets, k \in 0 .. MaxSends, kind \in MsgKinds(nextMsg),
             throws \in BOOLEAN, r \in MidDraw :
          TransportOpenSends(s, k, kind, throws, r)
    \/ \E s \in 1 .. MaxSockets, r \in MidDraw, cb \in CloseCallbacks :
          TransportCloseCb(s, r, cb)
    \/ \E t \in timers, r \in MidDraw : TimerFire(t, r)

SpecReentrant == InitInbound /\ [][NextReentrant]_vars

(***************************************************************************)
(* App.  JavaScript values as far as App tells them apart: besides those   *)
(* of inbound decoding, undefined, false, non-empty strings that are not   *)
(* spelt out (Word: a kind and a number, equal iff both are equal), and    *)
(* objects (a function from property names to values).                     *)
(***************************************************************************)
Undefined == [t |-> "undefined"]
False == [t |-> "bool", v |-> FALSE]
Word(k, n) == [k |-> k, n |-> n, t |-> "str"]
Obj(f) == [f |-> f, t |-> "obj"]

\* !!v
Truthy(v) ==
    /\ v.t \notin {"undefined", "null"}
    /\ v # False
    /\ v # Num(0)
    /\ v # Str(<<>>)

\* typeof v === "string"
IsString(v) == v.t = "str"

\* typeof v === "object" && v !== null
IsObject(v) == v.t \in {"obj", "arr", "blob", "arraybuffer"}

\* o.name
Get(o, name) == IF o.t = "obj" /\ name \in DOMAIN o.f THEN o.f[name] ELSE Undefined

\* a || b
Or(a, b) == IF Truthy(a) THEN a ELSE b

\* a display record of App as far as the handlers below read or write it
Message(id, sender, content, pending) ==
    [id |-> id, sender |-> sender, content |-> content, pending |-> pending]

currentUser == [id |-> Word("me", 0)]

Welcome == Message(Word("welcome", 1), Word("other", 0), Word("Welcome!", 0), FALSE)

\* `srv-${ts}`, `sys-${ts}`: an id made from the clock; the clock of the
\* n-th record is n
Stamped(k, msgs) == Word(k, Len(msgs) + 1)

\* the first effect: a welcome message if the list is empty
welcomeEffect(a) ==
    [a EXCEPT !.messages = IF Len(@) > 0 THEN @ ELSE <<Welcome>>,
              !.effectsRan = TRUE,
              !.last = [op |-> "welcome"]]

\* pendingIndexRef.current.get(key): the index (counted from 1 here), 0 for
\* undefined
MapGet(m, key) == IF key \in DOMAIN m THEN m[key] ELSE 0

\* map.delete(key)
MapDelete(m, key) == [k \in DOMAIN m \ {key} |-> m[k]]

\* map.set(key, v)
MapSet(m, key, v) == [k \in DOMAIN m \cup {key} |-> IF k = key THEN v ELSE m[k]]

(***************************************************************************)
(* The effect on lastMessage (inbound message handling): the App state     *)
(* after it ran for the value lm.                                          *)
(***************************************************************************)
inboundEffect(a, lm) ==
    LET msgs == a.messages
        type == Get(lm, "type")
    IN
    IF ~Truthy(lm) THEN [a EXCEPT !.last = [op |-> "inbound", branch |-> "none"]]
    ELSE IF IsString(lm)
    THEN [a EXCEPT !.messages = Append(@, Message(Stamped("srv", msgs), Word("other", 0),
                                                   lm, FALSE)),
                   !.last = [op |-> "inbound", branch |-> "text"]]
    ELSE IF IsObject(lm) /\ type = Word("ack", 0) /\ Truthy(Get(lm, "clientId"))
    THEN LET serverId == Or(Or(Get(lm, "id"), Get(lm, "serverId")), Get(lm, "messageId"))
             idx == MapGet(a.pendingIndexRef, Get(lm, "clientId"))
         IN  IF idx = 0
             THEN [a EXCEPT !.messages = Append(@, Message(Or(serverId, Stamped("srv", msgs)),
                                                           currentUser.id,
                                                           Or(Get(lm, "content"), Word("(sent)", 0)),
                                                           FALSE)),
                            !.last = [op |-> "inbound", branch |-> "ackUnknown"]]
             ELSE [a EXCEPT !.messages[idx].id = Or(serverId, @),
                            !.messages[idx].pending = FALSE,
                            !.pendingIndexRef = MapDelete(@, Get(lm, "clientId")),
                            !.last = [op |-> "inbound", branch |-> "ack"]]
    ELSE IF IsObject(lm)
            /\ (type = Word("message", 0)
                \/ (Truthy(Get(lm, "content")) /\ Truthy(Get(lm, "sender"))))
    THEN [a EXCEPT !.messages = Append(@, Message(Or(Get(lm, "id"), Stamped("srv", msgs)),
                                                   Or(Get(lm, "sender"), Word("other", 0)),
                                                   Or(Get(lm, "content"), Str(<<>>)),
                                                   FALSE)),
                   !.last = [op |-> "inbound", branch |-> "message"]]
    ELSE IF IsObject(lm)
            /\ (type = Word("system", 0) \/ Truthy(Get(lm, "info"))
                \/ Truthy(Get(lm, "notice")))
    THEN [a EXCEPT !.messages = Append(@, Message(Or(Get(lm, "id"), Stamped("sys", msgs)),
                                                   Word("other", 0),
                                                   Or(Or(Or(Get(lm, "content"), Get(lm, "info")),
                                                         Get(lm, "notice")),
                                                      Word("System update", 0)),
                                                   FALSE)),
                   !.last = [op |-> "inbound", branch |-> "system"]]
    ELSE [a EXCEPT !.last = [op |-> "inbound", branch |-> "none"]]

\* handleSend(text), up to the call of send(): the optimistic record is
\* appended and its index registered under the n-th clientId
ClientId(n) == Word("client", n)

\* Faulty variant: the index registered is the list's length before the
\* optimistic record was appended.
handleSend_IndexBeforeAppend(a, text, n) ==
    LET next == Append(a.messages, Message(ClientId(n), currentUser.id, text, TRUE))
    IN  [a EXCEPT !.messages = next,
                  !.pendingIndexRef = MapSet(@, ClientId(n), Len(a.messages))]

handleSend(a, text, n) ==
    LET next == Append(a.messages, Message(ClientId(n), currentUser.id, text, TRUE))
    IN  [a EXCEPT !.messages = next,
                  !.pendingIndexRef = MapSet(@, ClientId(n), Len(next))]

\* what the user has typed, trimmed: nothing or something
InputTexts == {Str(<<>>), Word("hi", 0)}

\* the hook's connected: status === STATUS.CONNECTED
connected == status = STATUS.CONNECTED

hookVars ==
    <<phase, Options, sockets, wsRef, timers, reconnectTimerRef, manualCloseRef,
      attemptsRef, attempts, outboundQueueRef, status, received, nextMsg,
      closedSends, preventRequested, lastOp, lastMessage, lastEvent, reported,
      delivered>>

\* the effects of App's first commit, run before any event of the transport
AppWelcome ==
    /\ phase = "mounted"
    /\ ~app.effectsRan
    /\ app' = welcomeEffect(app)
    /\ UNCHANGED <<hookVars, data, decoded, container, env, resolved>>

(***************************************************************************)
(* The user submits the input (Enter, or the send button): MessageInput's  *)
(* doSend with the trimmed text, App having rendered it with               *)
(* disabled={!connected} and onSend={handleSend}.  handleSend appends the  *)
(* optimistic record and calls the hook's send() with an object.           *)
(***************************************************************************)
AppSubmit(text, throws, r) ==
    /\ phase = "mounted"
    /\ app.effectsRan
    /\ nextMsg <= MaxSends
    /\ LET disabled == ~connected IN
       IF disabled \/ ~Truthy(text)
       THEN /\ ~throws
            /\ app' = [app EXCEPT !.last = [op |-> "submit", text |-> text,
                                            accepted |-> FALSE]]
            /\ UNCHANGED hookVars
       ELSE LET res == send(Cur, [id |-> nextMsg, kind |-> "object"], throws, r)
                wasOpen == wsRef # 0 /\ sockets[wsRef].readyState = OPEN
            IN  /\ throws => wasOpen
                /\ CommitHook(res.st, "send", res.ret)
                /\ app' = [handleSend(app, text, nextMsg) EXCEPT
                             !.last = [op |-> "submit", text |-> text,
                                       accepted |-> TRUE]]
                /\ nextMsg' = nextMsg + 1
                /\ closedSends' = IF wasOpen THEN closedSends
                                  ELSE closedSends \cup {nextMsg}
                /\ UNCHANGED <<phase, Options, preventRequested>>
    /\ UNCHANGED <<data, decoded, container, env, resolved>>

(***************************************************************************)
(* Inbound frames as App sees them, given by what safeParseInbound         *)
(* returns for them: a text that spells the JSON value v, or a text that   *)
(* is not JSON.                                                            *)
(***************************************************************************)
ParsedJson(v) ==
    [threw |-> FALSE, raw |-> [t |-> "str", spells |-> v], json |-> v, text |-> Null]

ParsedText(w) == [threw |-> FALSE, raw |-> w, json |-> Null, text |-> w]

AckFrame(n) ==
    ParsedJson(Obj([type |-> Word("ack", 0), clientId |-> ClientId(n),
                    id |-> Word("srv", 9)]))

AppFrames ==
    {AckFrame(n) : n \in 1 .. MaxSends + 1}
    \cup {ParsedJson(Obj([type |-> Word("message", 0), content |-> Word("hello", 0),
                         sender |-> Word("bob", 0)])),
          ParsedJson(Obj([type |-> Word("system", 0), content |-> Word("restart", 0)])),
          ParsedJson(Obj([type |-> Word("typing", 0), user |-> Word("bob", 0)])),
          ParsedJson(Arr(<<>>)),
          ParsedJson(Num(1)),
          ParsedJson(Num(0)),
          ParsedText(Word("hello", 0)),
          ParsedText(Str(<<>>))}

\* Object.is(old, new) is false: a decoded object is a new object each time
Changed(old, new) == IsObject(new) \/ new # old

\* a message event on the held transport, the re-render it causes, and the
\* effect on lastMessage if lastMessage changed
AppInbound(s, parsed) ==
    /\ phase = "mounted"
    /\ app.effectsRan
    /\ s \in 1 .. Len(sockets)
    /\ sockets[s].readyState \in {OPEN, CLOSING}
    /\ sockets[s].attached
    /\ Len(reported) < MaxAppFrames
    /\ LET ev == [sock |-> s, seq |-> FramesOn(s) + 1, data |-> parsed.raw]
           s1 == [Cur EXCEPT !.reported = Append(@, [event |-> ev, held |-> (wsRef = s)])]
           st == onmessageParsed(s1, ev, parsed, "returns")
       IN  /\ CommitHook(st, "message", FALSE)
           /\ app' = IF Changed(lastMessage, st.lastMessage)
                     THEN inboundEffect(app, st.lastMessage)
                     ELSE [app EXCEPT !.last = [op |-> "inbound", branch |-> "unchanged"]]
    /\ UNCHANGED <<phase, Options, nextMsg, closedSends, preventRequested>>
    /\ UNCHANGED <<data, decoded, container, env, resolved>>

(***************************************************************************)
(* Two message events on the held transport handled before React renders   *)
(* again (React batches state updates made outside its own event handlers  *)
(* when they fall into one task): both run ws.onmessage, then one render   *)
(* sees the last value of lastMessage and the effect runs once.            *)
(***************************************************************************)
AppInboundBatch(s, parsed1, parsed2) ==
    /\ phase = "mounted"
    /\ app.effectsRan
    /\ s \in 1 .. Len(sockets)
    /\ sockets[s].readyState \in {OPEN, CLOSING}
    /\ sockets[s].attached
    /\ Len(reported) + 2 <= MaxAppFrames
    /\ LET ev1 == [sock |-> s, seq |-> FramesOn(s) + 1, data |-> parsed1.raw]
           ev2 == [sock |-> s, seq |-> FramesOn(s) + 2, data |-> parsed2.raw]
           s1 == [Cur EXCEPT !.reported = Append(@, [event |-> ev1, held |-> (wsRef = s)])]
           st1 == onmessageParsed(s1, ev1, parsed1, "returns")
           s2 == [st1 EXCEPT !.reported = Append(@, [event |-> ev2, held |-> (wsRef = s)])]
           st2 == onmessageParsed(s2, ev2, parsed2, "returns")
       IN  /\ CommitHook(st2, "message", FALSE)
           /\ app' = IF Changed(lastMessage, st2.lastMessage)
                     THEN inboundEffect(app, st2.lastMessage)
                     ELSE [app EXCEPT !.last = [op |-> "inbound", branch |-> "unchanged"]]
    /\ UNCHANGED <<phase, Options, nextMsg, closedSends, preventRequested>>
    /\ UNCHANGED <<data, decoded, container, env, resolved>>

(***************************************************************************)

(* History over REST.  A response is a network failure, a status that is   *)
(* not OK, a body that is not JSON, or a JSON body.  Bodies are a bare     *)
(* array of each of the given sizes, the two wrapped shapes, an object of  *)
(* another shape, and a falsy value.                                       *)
(***************************************************************************)
HistItem(i) ==
    Obj([id |-> Word("h", i), content |-> Word("old", i), sender |-> Word("bob", 0)])

Items(n) == [i \in 1 .. n |-> HistItem(i)]

HistoryBodies(sizes) ==
    {Arr(Items(n)) : n \in sizes}
    \cup {Obj([messages |-> Arr(Items(2))]),
          Obj([data |-> Arr(Items(2))]),
          Obj([error |-> Word("no", 0)]),
          Num(0)}

Responses(sizes) ==
    {[kind |-> "network"], [kind |-> "status"], [kind |-> "unparsable"]}
    \cup {[kind |-> "json", body |-> b] : b \in HistoryBodies(sizes)}

\* a ?? b
Nullish(a, b) == IF a.t \in {"undefined", "null"} THEN b ELSE a

\* toMessage(item, index) of fetchRecentMessagesSafe
toMessage(item, index) ==
    IF ~Truthy(item) \/ ~IsObject(item)
    THEN Message(Word("hist", index), Word("other", 0),
                 IF item.t \in {"undefined", "null"} THEN Str(<<>>)
                 ELSE IF IsString(item) THEN item
                 ELSE [t |-> "str", spells |-> item],
                 FALSE)
    ELSE Message(Nullish(Nullish(Nullish(Get(item, "id"), Get(item, "_id")),
                                 Get(item, "uuid")),
                         Word("hist", index)),
                 Nullish(Nullish(Get(item, "sender"), Get(item, "role")),
                         IF Get(item, "user") = Word("me", 0)
                         THEN Word("me", 0) ELSE Word("other", 0)),
                 Nullish(Nullish(Nullish(Get(item, "content"), Get(item, "message")),
                                 Get(item, "text")),
                         Str(<<>>)),
                 FALSE)

\* Array.isArray(v)
IsArray(v) == v.t = "arr"

\* one pass of the loop of fetchRecentMessagesSafe over a candidate URL:
\* done says whether the function returned, list what it returned
tryCandidate(resp) ==
    IF resp.kind # "json" THEN [done |-> FALSE, list |-> <<>>]
    ELSE IF ~Truthy(resp.body) THEN [done |-> FALSE, list |-> <<>>]
    ELSE LET d == resp.body
             list == IF IsArray(d) THEN d.items
                     ELSE IF IsArray(Get(d, "messages")) THEN Get(d, "messages").items
                     ELSE IF IsArray(Get(d, "data")) THEN Get(d, "data").items
                     ELSE <<>>
         IN  [done |-> TRUE, list |-> [i \in 1 .. Len(list) |-> toMessage(list[i], i - 1)]]

\* fetchRecentMessagesSafe(), the two candidate URLs answering resp1, resp2
fetchRecentMessagesSafe(resp1, resp2) ==
    LET c1 == tryCandidate(resp1)
        c2 == tryCandidate(resp2)
    IN  IF c1.done THEN c1.list
        ELSE IF c2.done THEN c2.list
        ELSE <<>>

\* Faulty variant of the updater: the history records are put in front of
\* the list.
mergeHistory_Prepends(prev, history) ==
    IF Len(prev) = 1 /\ prev[1].id = Welcome.id THEN history
    ELSE LET byId == {prev[i].id : i \in 1 .. Len(prev)}
         IN  SelectSeq(history, LAMBDA h : h.id \notin byId) \o prev

\* the updater of the history effect
mergeHistory(prev, history) ==
    IF Len(prev) = 1 /\ prev[1].id = Welcome.id THEN history
    ELSE LET byId == {prev[i].id : i \in 1 .. Len(prev)}
         IN  prev \o SelectSeq(history, LAMBDA h : h.id \notin byId)

\* the history effect once its fetch has settled
historyEffect(a, resp1, resp2) ==
    LET history == fetchRecentMessagesSafe(resp1, resp2)
    IN  [a EXCEPT !.messages = IF Len(history) > 0 THEN mergeHistory(@, history) ELSE @,
                  !.historyLoaded = TRUE,
                  !.last = [op |-> "history", fetched |-> Len(history)]]

AppHistory(resp1, resp2) ==
    /\ phase = "mounted"
    /\ app.effectsRan
    /\ ~app.historyLoaded
    /\ app' = historyEffect(app, resp1, resp2)
    /\ UNCHANGED <<hookVars, data, decoded, container, env, resolved>>

(***************************************************************************)
(* App over one connection: mount, the first effects, the settling of the  *)
(* history fetch, the opening of the transport, submissions, inbound       *)
(* frames, and the end of the connection; the server's frames drawn from   *)
(* frames and its REST responses from responses.                           *)
(***************************************************************************)
NextAppOver(frames, responses) ==
    \/ \E r \in MidDraw : Mount(TRUE, r)
    \/ AppWelcome
    \/ \E text \in InputTexts, throws \in BOOLEAN, r \in MidDraw : AppSubmit(text, throws, r)
    \/ \E s \in 1 .. MaxSockets, parsed \in frames : AppInbound(s, parsed)
    \/ app.effectsRan /\ \E s \in 1 .. MaxSockets, k \in 0 .. MaxSends : TransportOpen(s, k)
    \/ app.effectsRan /\ \E s \in 1 .. MaxSockets, r \in MidDraw : TransportClose(s, r)
    \/ \E resp1, resp2 \in responses : AppHistory(resp1, resp2)

\* every kind of response over lists of no or two records
AppResponses == Responses({0, 2})

\* every shape of frame, every kind of response over short lists
NextApp == NextAppOver(AppFrames, AppResponses)

SpecApp == InitInbound /\ [][NextApp]_vars

\* the acknowledgements and one relayed message
AckFrames ==
    {AckFrame(n) : n \in 1 .. MaxSends + 1}
    \cup {ParsedJson(Obj([type |-> Word("message", 0), content |-> Word("hello", 0),
                          sender |-> Word("bob", 0)]))}

\* a history of two records that arrives or fails
AckResponses == {[kind |-> "network"], [kind |-> "json", body |-> Arr(Items(2))]}

\* a server that acknowledges and relays messages, and a history of two
\* records that arrives or fails
NextAck == NextAppOver(AckFrames, AckResponses)

SpecAck == InitInbound /\ [][NextAck]_vars

\* a server that sends plain text and whose history is empty or longer than
\* KeepLast
StoreFrames == {ParsedText(Word("hello", 0))}

StoreResponses == Responses({0, KeepLast + 1})

NextStore == NextAppOver(StoreFrames, StoreResponses)

SpecStore == InitInbound /\ [][NextStore]_vars

(***************************************************************************)
(* App with optimistic records in flight: acknowledgements, a relayed      *)
(* message that carries the id of a history record, and a history of two   *)
(* records that arrives at any moment or fails.                            *)
(***************************************************************************)
PendingFrames ==
    {AckFrame(n) : n \in 1 .. MaxSends + 1}
    \cup {ParsedJson(Obj([id |-> Word("h", 1), content |-> Word("old", 1),
                          sender |-> Word("bob", 0), type |-> Word("message", 0)]))}

NextPending == NextAppOver(PendingFrames, AckResponses)

SpecPending == InitInbound /\ [][NextPending]_vars

(***************************************************************************)

(* App under a stream of chat frames: plain texts and a relayed message,   *)
(* arriving one per render or two before a render; the history fetch       *)
(* fails.                                                                  *)
(***************************************************************************)
StreamFrames ==
    {ParsedText(Word("hello", 0)),
     ParsedText(Word("bye", 0)),
     ParsedJson(Obj([content |-> Word("hey", 0), sender |-> Word("bob", 0),
                     type |-> Word("message", 0)]))}

StreamResponses == {[kind |-> "network"]}

NextStream ==
    \/ NextAppOver(StreamFrames, StreamResponses)
    \/ \E s \in 1 .. MaxSockets, parsed1, parsed2 \in StreamFrames :
          AppInboundBatch(s, parsed1, parsed2)

SpecStream == InitInbound /\ [][NextStream]_vars

(***************************************************************************)

(* ChatContainer.  It calls useWebSocket() without options, so the hook    *)
(* runs with its defaults and without callbacks, and takes status, send,   *)
(* reconnect and onMessage from what the hook returns.                     *)
(***************************************************************************)
\* the names of the object useWebSocket returns
ReturnedInterface ==
    {"status", "connected", "connecting", "disconnected", "send", "connect",
     "disconnect", "lastMessage", "lastEvent", "attempts", "url"}

\* const { ..., onMessage } = useWebSocket(): a function if the hook returns
\* one under that name, undefined otherwise
Destructured(name) == IF name \in ReturnedInterface THEN "function" ELSE "undefined"

(***************************************************************************)
(* The effect "return onMessage((evt) => ...)", run with the other effects *)
(* of the first commit, before any event of the transport.  Calling        *)
(* undefined raises a TypeError and nothing is subscribed.                 *)
(***************************************************************************)
ContainerSubscribe ==
    /\ phase = "mounted"
    /\ container.subscription = "pending"
    /\ container' = [container EXCEPT
                       !.subscription = IF Destructured("onMessage") = "function"
                                        THEN "subscribed"
                                        ELSE "threw"]
    /\ UNCHANGED <<phase, Options, sockets, wsRef, timers, reconnectTimerRef,
                   manualCloseRef, attemptsRef, attempts, outboundQueueRef, status,
                   received, nextMsg, closedSends, preventRequested, lastOp,
                   lastMessage, lastEvent, reported, delivered,
                   data, decoded, app, env, resolved>>

ContainerEffectsRan == container.subscription # "pending"

\* seq.slice(-n)
LastN(seq, n) == SubSeq(seq, Max(1, Len(seq) - n + 1), Len(seq))

\* getHistory() of services/api.js with an API base configured, the server
\* answering resp
getHistory(resp) ==
    IF resp.kind # "json" THEN <<>>
    ELSE IF IsArray(resp.body) THEN resp.body.items
    ELSE IF IsArray(Get(resp.body, "messages")) THEN Get(resp.body, "messages").items
    ELSE <<>>

\* the history effect once getHistory() has settled: the list is replaced
\* by the last KeepLast items
ContainerHistory(resp) ==
    /\ phase = "mounted"
    /\ ContainerEffectsRan
    /\ ~container.historyLoaded
    /\ LET hist == getHistory(resp)
       IN  container' = [container EXCEPT
                           !.messages = LastN(hist, KeepLast),
                           !.historyLoaded = TRUE,
                           !.last = [op |-> "history", resp |-> resp, result |-> hist]]
    /\ UNCHANGED <<hookVars, data, decoded, app, env, resolved>>

\* the optimistic record of ChatContainer's handleSend
Optimistic(id, text) == [id |-> id, role |-> Word("user", 0), text |-> text,
                         optimistic |-> TRUE]

\* handleSend(text) of ChatContainer after send() returned ok
containerHandleSend(c, text, id, ok) ==
    [c EXCEPT !.messages = LastN(Append(@, Optimistic(id, text)), KeepLast),
              !.pendingMap = MapSet(@, id, IF ok THEN "pending" ELSE "failed"),
              !.last = [op |-> "submit", text |-> text, accepted |-> TRUE]]

(***************************************************************************)
(* The user submits the input: MessageInput's doSend with the trimmed      *)
(* text, ChatContainer having rendered it with disabled={status !==        *)
(* 'connected'} and onSend={handleSend}.  handleSend appends the           *)
(* optimistic record, calls the hook's send() with an object and marks     *)
(* the record failed if send() returned false.                             *)
(***************************************************************************)
ContainerSubmit(text, throws, r) ==
    /\ phase = "mounted"
    /\ ContainerEffectsRan
    /\ nextMsg <= MaxSends
    /\ LET disabled == status # STATUS.CONNECTED IN
       IF disabled \/ ~Truthy(text)
       THEN /\ ~throws
            /\ container' = [container EXCEPT !.last = [op |-> "submit", text |-> text,
                                                        accepted |-> FALSE]]
            /\ UNCHANGED hookVars
       ELSE LET res == send(Cur, [id |-> nextMsg, kind |-> "object"], throws, r)
                wasOpen == wsRef # 0 /\ sockets[wsRef].readyState = OPEN
            IN  /\ throws => wasOpen
                /\ CommitHook(res.st, "send", res.ret)
                /\ container' = containerHandleSend(container, text, nextMsg, res.ret)
                /\ nextMsg' = nextMsg + 1
                /\ closedSends' = IF wasOpen THEN closedSends
                                  ELSE closedSends \cup {nextMsg}
                /\ UNCHANGED <<phase, Options, preventRequested>>
    /\ UNCHANGED <<data, decoded, app, env, resolved>>

\* every kind of response over lists of no, two and more than KeepLast records
ContainerResponses == Responses({0, 2, KeepLast + 1})

NextContainer ==
    \/ \E r \in MidDraw : Mount(TRUE, r)
    \/ ContainerSubscribe
    \/ ContainerEffectsRan /\ Unmount
    \/ \E resp \in ContainerResponses : ContainerHistory(resp)
    \/ \E text \in InputTexts, throws \in BOOLEAN, r \in MidDraw :
          ContainerSubmit(text, throws, r)
    \/ ContainerEffectsRan /\ \E s \in 1 .. MaxSockets, k \in 0 .. MaxSends : TransportOpen(s, k)
    \/ ContainerEffectsRan /\ \E s \in 1 .. MaxSockets : TransportClosing(s)
    \/ ContainerEffectsRan /\ \E s \in 1 .. MaxSockets : TransportMessageCb(s, "absent")
    \/ ContainerEffectsRan /\ \E s \in 1 .. MaxSockets, r \in MidDraw : TransportClose(s, r)
    \/ ContainerEffectsRan /\ \E t \in timers, r \in MidDraw : TimerFire(t, r)

SpecContainer == InitInbound /\ [][NextContainer]_vars

(***************************************************************************)
(* Inbound decoding alone: safeParseInbound is called once on a payload    *)
(* drawn from all strings of at most MaxLen lexemes and the binary kinds.  *)
(***************************************************************************)
HookIdle ==
    /\ phase = "init"
    /\ shouldReconnect = TRUE
    /\ maxRetries = [inf |-> TRUE, n |-> 0]
    /\ urlOk = TRUE
    /\ sockets = <<>>
    /\ wsRef = 0
    /\ timers = {}
    /\ reconnectTimerRef = 0
    /\ manualCloseRef = FALSE
    /\ attemptsRef = 0
    /\ attempts = 0
    /\ outboundQueueRef = <<>>
    /\ status = STATUS.DISCONNECTED
    /\ received = <<>>
    /\ nextMsg = 1
    /\ closedSends = {}
    /\ preventRequested = FALSE
    /\ lastMessage = Null
    /\ lastEvent = NoEvent
    /\ reported = <<>>
    /\ delivered = <<>>
    /\ lastOp = [op |-> "init", ret |-> FALSE, scheduled |-> FALSE,
                 connectRan |-> FALSE, threw |-> FALSE, called |-> "none",
                 cbRaised |-> FALSE,
                 prevStatus |-> STATUS.DISCONNECTED, prevAttempts |-> 0]

InitDecode ==
    /\ HookIdle
    /\ data \in Payloads
    /\ decoded = NotDecoded
    /\ UiIdle
    /\ EnvIdle

Decode ==
    /\ decoded = NotDecoded
    /\ decoded' = safeParseInbound(data)
    /\ UNCHANGED <<phase, Options, sockets, wsRef, timers, reconnectTimerRef,
                   manualCloseRef, attemptsRef, attempts, outboundQueueRef, status,
                   received, nextMsg, closedSends, preventRequested, lastOp,
                   lastMessage, lastEvent, reported, delivered, data,
                   container, app, env, resolved>>

NextDecode == Decode

SpecDecode == InitDecode /\ [][NextDecode]_vars

(***************************************************************************)
(* Endpoint resolution.  A string is the sequence of its parts: a scheme,  *)
(* "://", a host (with its port), and the path as "/" and segments; the    *)
(* empty sequence is an unset (or empty) variable.                         *)
(***************************************************************************)
UrlTexts ==
    {<<>>,
     <<"https", "://", "api.x.com">>,
     <<"http", "://", "api.x.com", "/">>,
     <<"HTTPS", "://", "B.io:8080", "/", "chat">>,
     <<"api.x.com">>,
     <<"/", "api">>,
     <<"https", "://">>,
     <<"wss", "://", "s.io", "/", "sock">>}

Pages ==
    {[window |-> FALSE, protocol |-> "", host |-> ""]}
    \cup {[window |-> TRUE, protocol |-> p, host |-> h] :
             p \in {"http:", "https:"}, h \in {"app.io", "localhost:3000"}}
    \cup {[window |-> TRUE, protocol |-> "file:", host |-> ""]}

Envs == [wsUrl : UrlTexts, apiBase : UrlTexts, backend : UrlTexts, page : Pages]

\* the lower-case spelling of a scheme or host
Lower(tok) ==
    IF tok = "HTTPS" THEN "https"
    ELSE IF tok = "B.io:8080" THEN "b.io:8080"
    ELSE tok

\* /^https?:\/\//i.test(str)
MatchesHttp(str) ==
    Len(str) >= 2 /\ Lower(str[1]) \in {"http", "https"} /\ str[2] = "://"

\* new URL(str) for a string that starts with a scheme and "://": throws
\* if no host follows; otherwise protocol and host are lower-cased and an
\* empty path is "/"
NewURL(str) ==
    IF Len(str) < 3 \/ str[2] # "://" \/ str[3] = "/"
    THEN [threw |-> TRUE, protocol |-> "", host |-> "", pathname |-> <<>>]
    ELSE [threw |-> FALSE,
          protocol |-> Lower(str[1]),
          host |-> Lower(str[3]),
          pathname |-> IF Len(str) = 3 THEN <<"/">> ELSE SubSeq(str, 4, Len(str))]

\* getPageProtocol()
getPageProtocol(page) ==
    IF page.window /\ page.protocol # ""
    THEN IF page.protocol = "http:" THEN "http:" ELSE "https:"
    ELSE "https:"

\* getPageHost()
getPageHost(page) == IF page.window THEN page.host ELSE ""

\* getWsScheme()
getWsScheme(page) == IF getPageProtocol(page) = "http:" THEN "ws" ELSE "wss"

\* the last resort of getWsUrl: derived from the page
fromPage(page) ==
    LET host == IF getPageHost(page) # "" THEN getPageHost(page) ELSE "localhost:3000"
    IN  <<getWsScheme(page), "://", host, "/", "ws">>

\* the scheme swap of getWsUrl on a parsed URL
swapScheme(u) ==
    LET scheme == IF u.protocol = "http" THEN "ws" ELSE "wss"
        path == IF u.pathname # <<>> /\ u.pathname # <<"/">> THEN u.pathname
                ELSE <<"/", "ws">>
    IN  <<scheme, "://", u.host>> \o path

\* getWsUrl()
getWsUrl(e) ==
    LET candidate == IF e.apiBase # <<>> THEN e.apiBase ELSE e.backend
        u == NewURL(candidate)
    IN  [called |-> TRUE, threw |-> FALSE,
         url |-> IF e.wsUrl # <<>> THEN e.wsUrl
                 ELSE IF candidate # <<>> /\ MatchesHttp(candidate) /\ ~u.threw
                 THEN swapScheme(u)
                 ELSE fromPage(e.page)]

InitEnv ==
    /\ HookIdle
    /\ data = Null
    /\ decoded = NotDecoded
    /\ UiIdle
    /\ env \in Envs
    /\ resolved = Unresolved

Resolve ==
    /\ ~resolved.called
    /\ resolved' = getWsUrl(env)
    /\ UNCHANGED <<hookVars, data, decoded, container, app, env>>

NextEnv == Resolve

SpecEnv == InitEnv /\ [][NextEnv]_vars

(***************************************************************************)
(* Vocabulary of the properties.                                           *)
(***************************************************************************)
EnvOps == {"open", "openDetached", "closing", "error", "close", "closeDetached", "timer"}

IsClosedSend(p) == p.id \in closedSends

StrictlyIncreasingIds(seq) ==
    \A i, j \in 1 .. Len(seq) : i < j => seq[i].id < seq[j].id

Occurrences(seq, id) == Cardinality({i \in 1 .. Len(seq) : seq[i].id = id})

LiveSockets == {s \in 1 .. Len(sockets) : sockets[s].readyState \in {CONNECTING, OPEN}}

\* the first n payloads of the queue
Handed(q, n) == SubSeq(q, 1, n)

\* Transmitted, then queued, payloads of the sends made while not open are
\* those sends in call order, once each.
C1_ClosedSendsInOrder ==
    LET all == SelectSeq(received, IsClosedSend)
                  \o SelectSeq(outboundQueueRef, IsClosedSend)
    IN  /\ Len(all) = Cardinality(closedSends)
        /\ StrictlyIncreasingIds(all)

(***************************************************************************)
(* C1: the payloads of send() calls made while the transport was not open  *)
(* reach the transport in the order of the calls, each exactly once: those *)
(* already transmitted followed by those still queued are the calls in     *)
(* order.  An open event whose drain meets no throwing transmission hands  *)
(* the whole queue, in order, to the transport that opened and leaves the  *)
(* queue empty.                                                            *)
(***************************************************************************)
C1_DrainOnOpen ==
    /\ [] C1_ClosedSendsInOrder
    /\ [][(lastOp'.op = "open" /\ ~lastOp'.threw) =>
            /\ outboundQueueRef' = <<>>
            /\ received' = received \o Handed(outboundQueueRef, Len(outboundQueueRef))]_vars

C1_Witness ==
    /\ lastOp.op = "open"
    /\ ~lastOp.threw
    /\ outboundQueueRef = <<>>
    /\ Len(received) = 2
    /\ wsRef # 0 /\ sockets[wsRef].readyState = OPEN
    /\ closedSends = {1, 2}
    /\ received[1].id = 1 /\ received[2].id = 2

(***************************************************************************)
(* C2: at most one transport is open or connecting, and it is the one the  *)
(* hook holds; every other transport ever created has had its handlers     *)
(* detached and has been closed, so it cannot deliver an event.            *)
(***************************************************************************)
C2_SingleTransport ==
    /\ Cardinality(LiveSockets) <= 1
    /\ \A s \in 1 .. Len(sockets) :
          s # wsRef => /\ ~sockets[s].attached
                       /\ sockets[s].readyState \in {CLOSING, CLOSED}
    /\ wsRef # 0 => wsRef \in 1 .. Len(sockets) /\ sockets[wsRef].attached

C2_Witness ==
    /\ lastOp.op = "connect"
    /\ lastOp.prevStatus = STATUS.CONNECTED
    /\ Len(sockets) = 2
    /\ wsRef = 2
    /\ sockets[2].readyState = CONNECTING
    /\ sockets[1].readyState = CLOSING
    /\ ~sockets[1].attached

\* Every accepted payload is in the queue or transmitted, once in all; and
\* the ways one handler may change the queue.
C3_ExactlyOnce ==
    /\ \A id \in 1 .. (nextMsg - 1) :
          Occurrences(received, id) + Occurrences(outboundQueueRef, id) = 1
    /\ Len(received) + Len(outboundQueueRef) = nextMsg - 1

C3_QueueStep ==
    LET q == outboundQueueRef IN
    \/ /\ outboundQueueRef' = q
       /\ received' = received
    \/ \E n \in 1 .. Len(q) :
          /\ lastOp'.op = "open"
          /\ outboundQueueRef' = SubSeq(q, n + 1, Len(q))
          /\ received' = received \o Handed(q, n)
          /\ lastOp'.threw <=> (n < Len(q))
    \/ /\ lastOp'.op = "send"
       /\ nextMsg' = nextMsg + 1
       /\ \E enc \in {"text", "json"} :
            LET p == [id |-> nextMsg, enc |-> enc] IN
            \/ outboundQueueRef' = Append(q, p) /\ received' = received
            \/ outboundQueueRef' = q /\ received' = Append(received, p)
                  /\ lastOp'.ret

(***************************************************************************)
(* C3: every accepted payload is, at every moment, either in the queue or  *)
(* transmitted, exactly once in all.  The queue changes only by a drain    *)
(* that moves a prefix of it, in order, to the transport (what remains,    *)
(* the payload whose transmission threw first, keeps its order) or by a    *)
(* send() appending its payload at the back.                               *)
(***************************************************************************)
C3_NoPayloadDropped ==
    /\ [] C3_ExactlyOnce
    /\ [][C3_QueueStep]_vars
    /\ [][(lastOp'.op = "open" /\ lastOp'.threw) =>
             /\ outboundQueueRef' # <<>>
             /\ \E n \in 0 .. (Len(outboundQueueRef) - 1) :
                   outboundQueueRef' = SubSeq(outboundQueueRef, n + 1, Len(outboundQueueRef))]_vars

C3_Witness ==
    /\ lastOp.op = "open"
    /\ lastOp.threw
    /\ Len(received) = 1 /\ received[1].id = 1
    /\ Len(outboundQueueRef) = 1 /\ outboundQueueRef[1].id = 2
    /\ phase = "mounted"

\* The timer a handler has just scheduled.
NewTimer == CHOOSE t \in timers' : t.id = reconnectTimerRef'

(***************************************************************************)
(* C4: an open event sets the attempt counter to 0 whatever it was; the    *)
(* counter changes in no other way than to 0 by an open event and by +1    *)
(* when a reconnect is scheduled; and a reconnect scheduled while the      *)
(* counter is 0 uses attempt 1: its delay is the base delay within the     *)
(* 20% jitter band.                                                        *)
(***************************************************************************)
C4_OpenResetsAttempts ==
    /\ [] (lastOp.op = "open" => attemptsRef = 0 /\ attempts = 0)
    /\ [][attemptsRef' # attemptsRef =>
             \/ lastOp'.op = "open" /\ attemptsRef' = 0
             \/ lastOp'.scheduled /\ attemptsRef' = attemptsRef + 1]_vars
    /\ [][(lastOp'.scheduled /\ attemptsRef = 0) =>
             /\ attemptsRef' = 1
             /\ reconnectTimerRef' # 0
             /\ \E t \in timers' : t.id = reconnectTimerRef'
             /\ NewTimer.attempt = 1
             /\ 5 * NewTimer.delay >= 4 * BaseDelayMs
             /\ 5 * NewTimer.delay <= 6 * BaseDelayMs]_vars

C4_Witness ==
    /\ lastOp.op = "open"
    /\ lastOp.prevAttempts >= 2
    /\ attemptsRef = 0
    /\ status = STATUS.CONNECTED

(***************************************************************************)
(* C5: disconnect({preventReconnect: true}) leaves status disconnected,    *)
(* no transport held and no timer pending; while the manual-close flag is  *)
(* set no transport has a handler and no timer is pending, so no transport *)
(* event and no timer changes the hook's state or starts a connection.     *)
(***************************************************************************)
C5_ManualCloseQuiesces ==
    /\ [] (lastOp.op = "disconnect" =>
             /\ status = STATUS.DISCONNECTED
             /\ manualCloseRef)
    /\ [] (manualCloseRef =>
             /\ wsRef = 0
             /\ timers = {}
             /\ reconnectTimerRef = 0
             /\ LiveSockets = {}
             /\ \A s \in 1 .. Len(sockets) : ~sockets[s].attached)
    /\ [][(manualCloseRef /\ lastOp'.op \in EnvOps) =>
             /\ ~lastOp'.connectRan
             /\ ~lastOp'.scheduled
             /\ Len(sockets') = Len(sockets)
             /\ UNCHANGED <<status, wsRef, timers, reconnectTimerRef, manualCloseRef,
                            attemptsRef, attempts, outboundQueueRef>>]_vars

C5_Witness ==
    /\ phase = "mounted"
    /\ lastOp.op = "disconnect"
    /\ lastOp.prevStatus = STATUS.CONNECTING
    /\ lastOp.prevAttempts >= 1
    /\ status = STATUS.DISCONNECTED
    /\ manualCloseRef
    /\ shouldReconnect
    /\ sockets[Len(sockets)].readyState = CLOSING

(***************************************************************************)
(* C6 as stated: once disconnect({preventReconnect: true}) has been called *)
(* and until connect() is called explicitly, no handler starts a           *)
(* connection attempt (the manual-close flag being cleared by connect()    *)
(* only).                                                                  *)
(***************************************************************************)
C6_Original ==
    [][(preventRequested /\ lastOp'.connectRan) => lastOp'.op = "connect"]_vars

(***************************************************************************)
(* C6 amended: while the manual-close flag is set, nothing but an explicit *)
(* connect() starts a connection attempt, and a send() only enqueues its   *)
(* payload; the flag is cleared by connect() and by                        *)
(* disconnect({preventReconnect: false}), by nothing else.                 *)
(***************************************************************************)
C6_SuppressedWhileFlagSet ==
    /\ [][(manualCloseRef /\ lastOp'.connectRan) => lastOp'.op = "connect"]_vars
    /\ [][(manualCloseRef /\ ~manualCloseRef') =>
             lastOp'.op \in {"connect", "disconnectKeep"}]_vars
    /\ [][(manualCloseRef /\ lastOp'.op = "send") =>
             /\ ~lastOp'.ret
             /\ Len(outboundQueueRef') = Len(outboundQueueRef) + 1
             /\ UNCHANGED <<sockets, wsRef, timers, status, manualCloseRef, attemptsRef>>]_vars

C6_Witness ==
    /\ phase = "mounted"
    /\ lastOp.op = "send"
    /\ manualCloseRef
    /\ preventRequested
    /\ wsRef = 0
    /\ Len(outboundQueueRef) = 1
    /\ status = STATUS.DISCONNECTED
    /\ urlOk

\* The retry budget is used up.
Exhausted == (~maxRetries.inf) /\ attemptsRef = maxRetries.n

(***************************************************************************)
(* C7: with a finite maxRetries the attempt counter never exceeds it;      *)
(* every scheduled timer raises the counter by one and only an open event  *)
(* lowers it, so at most maxRetries timers are scheduled between two       *)
(* opens.  Once the counter is at maxRetries a close schedules nothing     *)
(* and leaves the hook disconnected with no timer (also the close of a     *)
(* transport a manual connect() created), and from there no transport      *)
(* event or timer starts an attempt.                                       *)
(***************************************************************************)
C7_RetryBudget ==
    /\ [] ((~maxRetries.inf) => attemptsRef <= maxRetries.n)
    /\ [] (Cardinality(timers) <= 1)
    /\ [][lastOp'.scheduled =>
             /\ attemptsRef' = attemptsRef + 1
             /\ timers' # {}]_vars
    /\ [][attemptsRef' < attemptsRef => lastOp'.op = "open"]_vars
    /\ [][(Exhausted /\ lastOp'.op = "close") =>
             /\ ~lastOp'.scheduled
             /\ status' = STATUS.DISCONNECTED
             /\ wsRef' = 0
             /\ timers' = {}
             /\ attemptsRef' = attemptsRef]_vars
    /\ [][(Exhausted /\ wsRef = 0 /\ timers = {} /\ lastOp'.op \in EnvOps) =>
             /\ ~lastOp'.connectRan
             /\ UNCHANGED <<status, wsRef, timers, attemptsRef>>]_vars

C7_Witness ==
    /\ ~maxRetries.inf
    /\ shouldReconnect
    /\ ~manualCloseRef
    /\ lastOp.op = "close"
    /\ lastOp.prevStatus = STATUS.CONNECTING
    /\ lastOp.prevAttempts = maxRetries.n
    /\ attemptsRef = maxRetries.n
    /\ ~lastOp.scheduled
    /\ timers = {}
    /\ status = STATUS.DISCONNECTED
    /\ Len(sockets) = maxRetries.n + 2

\* min(maxDelay, baseDelay * 2^(attempt-1)) as the specification writes it.
UnjitteredDelay(attempt) == Min(MaxDelayMs, BaseDelayMs * 2 ^ (attempt - 1))

C9_BackoffMonotone ==
    [][lastOp'.scheduled =>
         /\ attemptsRef' = attemptsRef + 1
         /\ \E t \in timers' : t.id = reconnectTimerRef'
         /\ NewTimer.attempt = attemptsRef'
         /\ NewTimer.delay <= MaxDelayMs
         /\ attemptsRef >= 1 =>
               /\ backoffExp(attemptsRef', BaseDelayMs, MaxDelayMs)
                     >= backoffExp(attemptsRef, BaseDelayMs, MaxDelayMs)
               /\ backoffExp(attemptsRef, BaseDelayMs, MaxDelayMs) < MaxDelayMs =>
                     backoffExp(attemptsRef', BaseDelayMs, MaxDelayMs)
                        > backoffExp(attemptsRef, BaseDelayMs, MaxDelayMs)
               /\ backoffExp(attemptsRef, BaseDelayMs, MaxDelayMs) = MaxDelayMs =>
                     backoffExp(attemptsRef', BaseDelayMs, MaxDelayMs) = MaxDelayMs]_vars

C9_Witness ==
    /\ lastOp.scheduled
    /\ lastOp.prevAttempts = 6
    /\ attemptsRef = 7
    /\ \E t \in timers : t.attempt = 7 /\ t.delay > 12000 /\ t.delay <= MaxDelayMs

IsOpen == wsRef # 0 /\ sockets[wsRef].readyState = OPEN

\* The payload send() builds for the consumer's next message.
NextPayload == Serialize([id |-> nextMsg, kind |-> CHOOSE k \in MsgKinds(nextMsg) : k # "cyclic"])

C12_TrueWhenQueuedOrSent ==
    [][lastOp'.op = "send" => lastOp'.ret]_vars

\* The hook holds no transport, or one whose readyState is CLOSED.
AbsentOrClosed == wsRef = 0 \/ sockets[wsRef].readyState = CLOSED

(***************************************************************************)
(* C13 as stated: send() of a serializable message while the transport is  *)
(* not open appends the payload to the queue, and if the transport is      *)
(* absent or fully closed that call triggers a connect.                    *)
(***************************************************************************)
C13_Original ==
    [][(lastOp'.op = "send" /\ ~IsOpen) =>
         /\ outboundQueueRef' = Append(outboundQueueRef, NextPayload)
         /\ AbsentOrClosed => lastOp'.connectRan]_vars

(***************************************************************************)
(* C13 amended: send() of a serializable message while the transport is    *)
(* not open appends the payload to the queue; that call triggers a connect *)
(* exactly when the transport is absent or fully closed and the            *)
(* manual-close flag is not set.  While the flag is set, or while a        *)
(* transport is connecting or closing, the call only enqueues.             *)
(***************************************************************************)
C13_EnqueueAndMaybeConnect ==
    [][(lastOp'.op = "send" /\ ~IsOpen) =>
         /\ outboundQueueRef' = Append(outboundQueueRef, NextPayload)
         /\ received' = received
         /\ lastOp'.connectRan <=> (AbsentOrClosed /\ ~manualCloseRef)
         /\ ~lastOp'.connectRan =>
               UNCHANGED <<sockets, wsRef, timers, reconnectTimerRef, status,
                           manualCloseRef, attemptsRef>>]_vars

C13_Witness ==
    /\ lastOp.op = "send"
    /\ lastOp.connectRan
    /\ lastOp.prevStatus = STATUS.DISCONNECTED
    /\ status = STATUS.CONNECTING
    /\ Len(sockets) = 2 /\ wsRef = 2
    /\ sockets[2].readyState = CONNECTING
    /\ Len(outboundQueueRef) = 1

\* A handler has just started a connection attempt that is now under way.
AttemptStarted ==
    /\ lastOp.connectRan
    /\ status = STATUS.CONNECTING
    /\ wsRef # 0
    /\ sockets[wsRef].readyState = CONNECTING

\* disconnect() or the unmount cleanup was the last handler.
Intervened == lastOp.op \in {"disconnect", "disconnectKeep", "unmount"}

\* The model still has room for one more transport.
RoomForSocket == Len(sockets) < MaxSockets

(***************************************************************************)
(* C14: when the held transport reports close while status is connecting   *)
(* or connected, status becomes disconnected, the transport reference is   *)
(* cleared and the close callback is invoked.  If reconnection is enabled, *)
(* the close was not manually requested and the retry budget is not used   *)
(* up, the handler schedules exactly one reconnect timer (raising the      *)
(* attempt counter by one); otherwise it schedules none.  A timer so       *)
(* scheduled is followed by a connection attempt (status connecting, a     *)
(* fresh transport) unless disconnect() or the unmount intervenes.         *)
(***************************************************************************)
C14_CloseThenReconnect ==
    /\ [][lastOp'.op = "close" =>
            /\ status \in {STATUS.CONNECTING, STATUS.CONNECTED}
            /\ status' = STATUS.DISCONNECTED
            /\ wsRef # 0 /\ wsRef' = 0
            /\ lastOp'.called = "onClose"
            /\ timers = {}
            /\ IF shouldReconnect /\ ~manualCloseRef /\ ~Exhausted
               THEN /\ lastOp'.scheduled
                    /\ Cardinality(timers') = 1
                    /\ reconnectTimerRef' # 0
                    /\ attemptsRef' = attemptsRef + 1
               ELSE /\ ~lastOp'.scheduled
                    /\ timers' = {}
                    /\ reconnectTimerRef' = 0
                    /\ attemptsRef' = attemptsRef]_vars
    /\ (lastOp.op = "close" /\ lastOp.scheduled /\ RoomForSocket)
          ~> (AttemptStarted \/ Intervened)

C14_Witness ==
    /\ lastOp.op = "timer"
    /\ AttemptStarted
    /\ lastOp.prevStatus = STATUS.DISCONNECTED
    /\ attemptsRef = 1
    /\ Len(sockets) = 2
    /\ sockets[1].readyState = CLOSED
    /\ timers = {}

(***************************************************************************)
(* C15: an error event of the transport only invokes the error callback:   *)
(* status, transport reference, transports, attempt counter, queue, timer  *)
(* and manual-close flag are unchanged and nothing is scheduled or         *)
(* connected.  The close event that follows it is what schedules the       *)
(* reconnect: over the error and the close together the attempt counter    *)
(* rises by exactly one and exactly one timer is pending when reconnection *)
(* is enabled and the budget is not used up, and by nothing otherwise.     *)
(***************************************************************************)
C15_ErrorChangesNothing ==
    /\ [][lastOp'.op = "error" =>
            /\ lastOp'.called = "onError"
            /\ ~lastOp'.scheduled
            /\ ~lastOp'.connectRan
            /\ UNCHANGED <<sockets, wsRef, timers, reconnectTimerRef, manualCloseRef,
                           attemptsRef, attempts, outboundQueueRef, status,
                           received>>]_vars
    /\ [][(lastOp.op = "error" /\ lastOp'.op = "close") =>
            /\ timers = {}
            /\ IF shouldReconnect /\ ~Exhausted
               THEN /\ lastOp'.scheduled
                    /\ attemptsRef' = lastOp.prevAttempts + 1
                    /\ Cardinality(timers') = 1
               ELSE /\ ~lastOp'.scheduled
                    /\ attemptsRef' = lastOp.prevAttempts
                    /\ timers' = {}]_vars

C15_Witness ==
    /\ lastOp.op = "error"
    /\ lastOp.called = "onError"
    /\ status = STATUS.CONNECTING
    /\ wsRef # 0
    /\ attemptsRef = 1
    /\ Len(outboundQueueRef) = 1
    /\ timers = {}

(***************************************************************************)
(* C16: when new WebSocket throws inside connect(), the handler that       *)
(* called connect() completes: status is disconnected, no transport is     *)
(* held or was created, the manual-close flag is clear, and a reconnect    *)
(* is scheduled as after a close: if reconnection is enabled and the       *)
(* retry budget is not used up, one timer for the raised attempt number,   *)
(* otherwise none.                                                         *)
(***************************************************************************)
C16_ConstructionFailure ==
    [][(lastOp'.connectRan /\ ~urlOk) =>
         /\ status' = STATUS.DISCONNECTED
         /\ wsRef' = 0
         /\ Len(sockets') = Len(sockets)
         /\ LiveSockets = {}
         /\ ~manualCloseRef'
         /\ IF shouldReconnect /\ ~Exhausted
            THEN /\ lastOp'.scheduled
                 /\ attemptsRef' = attemptsRef + 1
                 /\ attempts' = attemptsRef'
                 /\ Cardinality(timers') = 1
                 /\ NewTimer.attempt = attemptsRef'
            ELSE /\ ~lastOp'.scheduled
                 /\ attemptsRef' = attemptsRef
                 /\ timers' = {}
                 /\ reconnectTimerRef' = 0]_vars

C16_Witness ==
    /\ ~urlOk
    /\ lastOp.op = "timer"
    /\ lastOp.connectRan
    /\ lastOp.scheduled
    /\ lastOp.prevAttempts = 2
    /\ attemptsRef = 3
    /\ status = STATUS.DISCONNECTED
    /\ wsRef = 0
    /\ Cardinality(timers) = 1

\* What connect() leaves behind when the transport is constructed.
ConnectEffect ==
    /\ status' = STATUS.CONNECTING
    /\ Len(sockets') = Len(sockets) + 1
    /\ wsRef' = Len(sockets')
    /\ sockets'[wsRef'] = [readyState |-> CONNECTING, attached |-> TRUE]
    /\ \A s \in 1 .. Len(sockets) :
          IF s = wsRef
          THEN /\ ~sockets'[s].attached
               /\ sockets'[s].readyState \in {CLOSING, CLOSED}
          ELSE sockets'[s] = sockets[s]
    /\ timers' = {}
    /\ reconnectTimerRef' = 0
    /\ ~manualCloseRef'
    /\ outboundQueueRef' = outboundQueueRef
    /\ received' = received
    /\ attemptsRef' = attemptsRef
    /\ attempts' = attempts

(***************************************************************************)
(* C17 as stated: connect() called in any state ends with status           *)
(* connecting, a fresh transport in place of any previous one, no timer    *)
(* pending and the manual-close flag clear, and leaves the queue and the   *)
(* attempt counter unchanged.                                              *)
(***************************************************************************)
C17_Original ==
    [][lastOp'.op = "connect" => ConnectEffect]_vars

(***************************************************************************)
(* C17 amended: the same, provided the construction of the transport       *)
(* succeeds.  The previous transport, if any, has its handlers detached    *)
(* and is closed.  When the construction throws, connect() still clears    *)
(* the flag, the previous timer and leaves the queue unchanged, but ends   *)
(* disconnected as described for that failure.                             *)
(***************************************************************************)
C17_ConnectReplacesTransport ==
    /\ [][(lastOp'.op = "connect" /\ urlOk) => ConnectEffect]_vars
    /\ [][(lastOp'.op = "connect" /\ ~urlOk) =>
             /\ status' = STATUS.DISCONNECTED
             /\ wsRef' = 0
             /\ ~manualCloseRef'
             /\ outboundQueueRef' = outboundQueueRef
             /\ \A t \in timers' : t \notin timers \/ lastOp'.scheduled]_vars

C17_Witness ==
    /\ lastOp.op = "connect"
    /\ lastOp.prevStatus = STATUS.DISCONNECTED
    /\ status = STATUS.CONNECTING
    /\ attemptsRef = 1
    /\ Len(sockets) = 2 /\ wsRef = 2
    /\ sockets[1].readyState = CLOSED
    /\ timers = {}
    /\ Len(outboundQueueRef) = 1

\* Nothing of the hook is alive: no timer, no transport that is open or
\* connecting or has a handler, and the manual-close flag is set.
Quiescent ==
    /\ timers = {}
    /\ reconnectTimerRef = 0
    /\ wsRef = 0
    /\ LiveSockets = {}
    /\ \A s \in 1 .. Len(sockets) : ~sockets[s].attached
    /\ manualCloseRef

(***************************************************************************)
(* C18: after the unmount cleanup, whatever the hook was doing (connected, *)
(* connecting, waiting for a reconnect timer), no timer is pending and no  *)
(* transport is open, connecting or has a handler; and every later         *)
(* transport event or timer leaves the hook's state alone: it starts no    *)
(* connection, schedules nothing and creates no transport.                 *)
(***************************************************************************)
C18_UnmountQuiesces ==
    /\ [] (phase = "unmounted" => Quiescent)
    /\ [][phase = "unmounted" =>
             /\ lastOp'.op \in EnvOps
             /\ ~lastOp'.connectRan
             /\ ~lastOp'.scheduled
             /\ lastOp'.called = "none"
             /\ Len(sockets') = Len(sockets)
             /\ UNCHANGED <<phase, wsRef, timers, reconnectTimerRef, manualCloseRef,
                            attemptsRef, attempts, outboundQueueRef, status,
                            received>>]_vars

C18_Witness ==
    /\ phase = "unmounted"
    /\ lastOp.op = "closeDetached"
    /\ status = STATUS.CONNECTING
    /\ attemptsRef >= 1
    /\ shouldReconnect
    /\ maxRetries.inf
    /\ \A s \in 1 .. Len(sockets) : sockets[s].readyState = CLOSED
    /\ Quiescent

(***************************************************************************)
(* What it means for a text to be JSON, stated on the text and not by a    *)
(* parser: a value is null, 1, or a bracketed, comma-separated list of     *)
(* values; Render writes a value back as its text.                         *)
(***************************************************************************)
RECURSIVE IsValueText(_)
RECURSIVE IsListText(_)
RECURSIVE Render(_)
RECURSIVE RenderList(_)

IsValueText(t) ==
    \/ t = <<"null">>
    \/ t = <<"1">>
    \/ /\ Len(t) >= 2
       /\ t[1] = "["
       /\ t[Len(t)] = "]"
       /\ \/ Len(t) = 2
          \/ IsListText(SubSeq(t, 2, Len(t) - 1))

IsListText(m) ==
    \/ IsValueText(m)
    \/ \E i \in 2 .. (Len(m) - 1) :
          /\ m[i] = ","
          /\ IsValueText(SubSeq(m, 1, i - 1))
          /\ IsListText(SubSeq(m, i + 1, Len(m)))

RenderList(items) ==
    IF Len(items) = 1 THEN Render(items[1])
    ELSE Render(items[1]) \o <<",">> \o RenderList(Tail(items))

Render(v) ==
    IF v = Null THEN <<"null">>
    ELSE IF v.t = "num" THEN <<"1">>
    ELSE IF v.items = <<>> THEN <<"[", "]">>
    ELSE <<"[">> \o RenderList(v.items) \o <<"]">>

(***************************************************************************)
(* C19: decoding never raises and yields raw equal to the payload.  For a  *)
(* string that is not JSON the decoded value is null and text is the       *)
(* payload; for a string that is JSON the decoded value is the value the   *)
(* text denotes and text is null; for a payload that is not a string both  *)
(* are null.                                                               *)
(***************************************************************************)
C19_DecodeNeverRaises ==
    decoded # NotDecoded =>
        /\ ~decoded.threw
        /\ decoded.raw = data
        /\ IF data.t = "str"
           THEN IF IsValueText(data.toks)
                THEN /\ Render(decoded.json) = data.toks
                     /\ decoded.text = Null
                ELSE /\ decoded.json = Null
                     /\ decoded.text = data
           ELSE /\ decoded.json = Null
                /\ decoded.text = Null

C19_Witness ==
    /\ data = Str(<<"not", "json">>)
    /\ decoded = [threw |-> FALSE, raw |-> data, json |-> Null, text |-> data]

\* The events dispatched on the transport the hook held at that moment, and
\* the events the listener was called with.
HeldEvents ==
    LET held == SelectSeq(reported, LAMBDA f : f.held)
    IN  [i \in 1 .. Len(held) |-> held[i].event]

DeliveredEvents == [i \in 1 .. Len(delivered) |-> delivered[i].event]

(***************************************************************************)
(* C20: the listener is called once for every message event of the         *)
(* transport the hook holds, with that event, in the order of the events:  *)
(* the events delivered are at every moment exactly the events dispatched  *)
(* on the held transport, in order.  A message event calls the listener    *)
(* at once and nothing else ever calls it; an event of a transport that    *)
(* has been replaced or torn down calls nothing and changes nothing.       *)
(***************************************************************************)
C20_DeliveredInOrderOnce ==
    /\ [] (DeliveredEvents = HeldEvents)
    /\ [][lastOp'.op = "message" =>
             /\ Len(reported') = Len(reported) + 1
             /\ reported'[Len(reported')].held
             /\ reported'[Len(reported')].event.sock = wsRef
             /\ Len(delivered') = Len(delivered) + 1
             /\ delivered'[Len(delivered')].event = reported'[Len(reported')].event
             /\ SubSeq(delivered', 1, Len(delivered)) = delivered
             /\ lastOp'.called = "onMessage"
             /\ lastEvent' = reported'[Len(reported')].event]_vars
    /\ [][lastOp'.op # "message" =>
             /\ delivered' = delivered
             /\ lastEvent' = lastEvent
             /\ lastMessage' = lastMessage]_vars
    /\ [][lastOp'.op = "messageDetached" =>
             /\ ~reported'[Len(reported')].held
             /\ lastOp'.called = "none"
             /\ UNCHANGED <<sockets, wsRef, timers, status, attemptsRef,
                            outboundQueueRef>>]_vars

C20_Witness ==
    /\ Len(reported) = 3
    /\ reported[1].held /\ reported[1].event.sock = 1
    /\ ~reported[2].held /\ reported[2].event.sock = 1
    /\ reported[3].held /\ reported[3].event.sock = 2
    /\ Len(delivered) = 2
    /\ delivered[1].event = [sock |-> 1, seq |-> 1, data |-> FrameData(1)]
    /\ delivered[2].event = [sock |-> 2, seq |-> 1, data |-> FrameData(3)]
    /\ lastMessage = Blob

\* What a step whose consumer callback raised must still have done.
RaisedOpenEffect ==
    /\ attemptsRef' = 0
    /\ attempts' = 0
    /\ status' = STATUS.CONNECTED
    /\ \E n \in 0 .. Len(outboundQueueRef) :
          /\ received' = received \o Handed(outboundQueueRef, n)
          /\ outboundQueueRef' = SubSeq(outboundQueueRef, n + 1, Len(outboundQueueRef))
          /\ (n < Len(outboundQueueRef)) => lastOp'.threw

RaisedCloseEffect ==
    /\ status' = STATUS.DISCONNECTED
    /\ wsRef' = 0
    /\ lastOp'.scheduled
    /\ attemptsRef' = attemptsRef + 1
    /\ reconnectTimerRef' # 0
    /\ \E t \in timers' : t.id = reconnectTimerRef' /\ t \notin timers

RaisedMessageEffect ==
    /\ Len(delivered') = Len(delivered) + 1
    /\ LET d == delivered'[Len(delivered')]
       IN  /\ d.event = reported'[Len(reported')].event
           /\ lastEvent' = d.event
           /\ lastMessage' = d.data
           /\ d.data = Coalesce(d.parsed.json, d.parsed.text, d.parsed.raw)

RaisedErrorEffect ==
    UNCHANGED <<sockets, wsRef, timers, reconnectTimerRef, manualCloseRef,
                attemptsRef, attempts, outboundQueueRef, status, received,
                lastMessage, lastEvent, delivered>>

RaisedStep ==
    lastOp'.cbRaised =>
        /\ lastOp'.op = "open" => RaisedOpenEffect
        /\ lastOp'.op = "close" => RaisedCloseEffect
        /\ lastOp'.op = "message" => RaisedMessageEffect
        /\ lastOp'.op = "error" => RaisedErrorEffect

(***************************************************************************)
(* C21: a consumer callback that raises never changes what the hook does.  *)
(* An open event whose callback raises still leaves both attempt counters  *)
(* 0 and the status connected and still drains the queue (every queued     *)
(* payload is transmitted in order unless a transmission itself throws);   *)
(* a close event whose callback raises still clears the transport          *)
(* reference and schedules the reconnect; a message event whose callback   *)
(* raises still sets lastEvent and lastMessage, and every later frame of   *)
(* the held transport is still delivered, in order; an error event whose   *)
(* callback raises changes nothing.                                        *)
(***************************************************************************)
C21_RaisingCallbackChangesNothing ==
    [][RaisedStep]_vars /\ [](DeliveredEvents = HeldEvents)

\* An open event after a reconnect whose callback raised and which drained
\* two payloads queued while the transport was down.
C21_Witness ==
    /\ lastOp.op = "open"
    /\ lastOp.cbRaised
    /\ lastOp.prevAttempts > 0
    /\ Cardinality(closedSends) = 2
    /\ Len(received) = 2
    /\ outboundQueueRef = <<>>
    /\ attemptsRef = 0

(***************************************************************************)
(* C22: the hook exposes onMessage(callback) registration and every        *)
(* registered subscriber receives every inbound event: once the            *)
(* component's subscription effect has run, its subscriber has received    *)
(* exactly the message events dispatched on the held transport, in order.  *)
(***************************************************************************)
C22_SubscriberReceivesEveryEvent ==
    ContainerEffectsRan => container.inbox = HeldEvents

\* the acknowledgement {type: "ack", clientId: c, id: srv}
Ack(c, srv) == Obj([type |-> Word("ack", 0), clientId |-> c, id |-> srv])

\* this step is a message event that stored v in lastMessage
Stored(v) == Len(reported') = Len(reported) + 1 /\ lastMessage' = v

\* positions of the records with id c
Tagged(msgs, c) == {i \in 1 .. Len(msgs) : msgs[i].id = c}

AckReconciles(c, srv) ==
    (Stored(Ack(c, srv)) /\ Tagged(app.messages, c) # {})
        => \E i \in Tagged(app.messages, c) :
              /\ Tagged(app.messages, c) = {i}
              /\ app.messages[i].pending
              /\ Len(app'.messages) = Len(app.messages)
              /\ app'.messages[i] = [app.messages[i] EXCEPT !.id = srv, !.pending = FALSE]
              /\ \A j \in 1 .. Len(app.messages) :
                    j # i => app'.messages[j] = app.messages[j]
              /\ c \in DOMAIN app.pendingIndexRef
              /\ app'.pendingIndexRef
                    = [k \in DOMAIN app.pendingIndexRef \ {c} |-> app.pendingIndexRef[k]]

C24_AtMostKeepLast == Len(app.messages) <= KeepLast

\* the payload of send number n is in the outbound queue
Queued(n) == \E i \in 1 .. Len(outboundQueueRef) : outboundQueueRef[i].id = n

\* the payload of send number n was handed to the transport
Transmitted(n) == \E i \in 1 .. Len(received) : received[i].id = n

(***************************************************************************)
(* C25: an optimistic record is marked failed only if its payload was not  *)
(* transmitted and is not waiting in the outbound queue: no record marked  *)
(* failed has its payload in the queue or on the wire.                     *)
(***************************************************************************)
C25_FailedOnlyIfNeitherSentNorQueued ==
    \A n \in DOMAIN container.pendingMap :
        container.pendingMap[n] = "failed" => ~Queued(n) /\ ~Transmitted(n)

\* this step is a submission of the text by the user
Submitted(text) == app' # app /\ app'.last.op = "submit" /\ app'.last.text = text

(***************************************************************************)
(* C26: the user can always submit a message, whatever the connection      *)
(* status: a submission of a non-empty text while the status is            *)
(* disconnected or connecting appends an optimistic (pending) record and   *)
(* puts its payload in the outbound queue.                                 *)
(***************************************************************************)
C26_SubmitNeverBlocked ==
    [][(Submitted(Word("hi", 0)) /\ status \in {STATUS.DISCONNECTED, STATUS.CONNECTING})
         => /\ Len(app'.messages) = Len(app.messages) + 1
            /\ app'.messages[Len(app'.messages)].pending
            /\ Len(outboundQueueRef') = Len(outboundQueueRef) + 1]_vars

\* v is an acknowledgement
IsAck(v) == IsObject(v) /\ Get(v, "type") = Word("ack", 0)

(***************************************************************************)
(* C27: every inbound frame that is not an acknowledgement produces a      *)
(* display record, whatever its shape: a message event whose decoded       *)
(* value is not an acknowledgement makes the list one record longer.       *)
(***************************************************************************)
C27_NonAckFrameShown ==
    [][(Len(reported') = Len(reported) + 1 /\ ~IsAck(lastMessage'))
         => Len(app'.messages) = Len(app.messages) + 1]_vars

\* str is an absolute http(s) URL: a scheme http or https in any case,
\* "://", and a host
IsAbsoluteHttp(str) ==
    /\ Len(str) >= 3
    /\ str[1] \in {"http", "https", "HTTP", "HTTPS"}
    /\ str[2] = "://"
    /\ str[3] \notin {"", "/"}

\* the WebSocket URL for an absolute http(s) URL: ws for http, wss for
\* https, the same host, the same path, /ws for an empty or root path
Derived(str) ==
    LET secure == str[1] \in {"https", "HTTPS"}
        rest == SubSeq(str, 4, Len(str))
    IN  <<IF secure THEN "wss" ELSE "ws", "://", Lower(str[3])>>
            \o (IF rest \in {<<>>, <<"/">>} THEN <<"/", "ws">> ELSE rest)

\* the WebSocket URL of the page: ws for an http page and wss otherwise,
\* the page's host (localhost:3000 when the page has none), path /ws
OfPage(page) ==
    <<IF page.window /\ page.protocol = "http:" THEN "ws" ELSE "wss", "://",
      IF page.window /\ page.host # "" THEN page.host ELSE "localhost:3000",
      "/", "ws">>

(***************************************************************************)
(* C28: the WebSocket URL is resolved by precedence: the configured        *)
(* WebSocket URL verbatim; otherwise, if the API base or the backend URL   *)
(* is an absolute http(s) URL, that URL with the scheme swapped, the same  *)
(* host and path, and /ws for an empty or root path; otherwise the page's  *)
(* scheme and host with path /ws.                                          *)
(***************************************************************************)
C28_ResolvedByPrecedence ==
    resolved.called =>
        resolved.url =
            IF env.wsUrl # <<>> THEN env.wsUrl
            ELSE IF IsAbsoluteHttp(env.apiBase) THEN Derived(env.apiBase)
            ELSE IF IsAbsoluteHttp(env.backend) THEN Derived(env.backend)
            ELSE OfPage(env.page)

\* url is an absolute ws:// or wss:// URL
IsAbsoluteWs(url) ==
    Len(url) >= 3 /\ url[1] \in {"ws", "wss"} /\ url[2] = "://" /\ url[3] \notin {"", "/"}

(***************************************************************************)
(* C29: endpoint resolution never raises; when the API base is set but is  *)
(* not an absolute http(s) URL and the backend URL is one, the result is   *)
(* derived from the backend URL; and the result is always an absolute      *)
(* ws:// or wss:// URL.                                                    *)
(***************************************************************************)
C29_FallsThroughAndAbsolute ==
    resolved.called =>
        /\ ~resolved.threw
        /\ IsAbsoluteWs(resolved.url)
        /\ (env.wsUrl = <<>> /\ env.apiBase # <<>> /\ ~IsAbsoluteHttp(env.apiBase)
               /\ IsAbsoluteHttp(env.backend))
             => resolved.url = Derived(env.backend)

\* the items of a response of an accepted shape (a bare array,
\* {messages: [...]} or {data: [...]}), nothing for any other response
AcceptedItems(resp) ==
    IF resp.kind # "json" THEN <<>>
    ELSE IF resp.body.t = "arr" THEN resp.body.items
    ELSE IF Get(resp.body, "messages").t = "arr" THEN Get(resp.body, "messages").items
    ELSE IF Get(resp.body, "data").t = "arr" THEN Get(resp.body, "data").items
    ELSE <<>>

(***************************************************************************)
(* C30: history retrieval never surfaces an error: a response that is a    *)
(* bare array, {messages: [...]} or {data: [...]} yields that array's      *)
(* items and any other response, status, body or failure yields the empty  *)
(* list.                                                                   *)
(***************************************************************************)
C30_HistoryYieldsItemsOrNothing ==
    container.last.op = "history"
        => container.last.result = AcceptedItems(container.last.resp)

\* how the attempt counter moves in a step: up by one, in a step that
\* scheduled a reconnect and ends disconnected with the timer pending; down
\* to 0 only, at an open event
CounterStep ==
    /\ attemptsRef' > attemptsRef =>
          /\ attemptsRef' = attemptsRef + 1
          /\ lastOp'.scheduled
          /\ status' = STATUS.DISCONNECTED
          /\ reconnectTimerRef' # 0
    /\ attemptsRef' < attemptsRef =>
          /\ attemptsRef' = 0
          /\ lastOp'.op = "open"

(***************************************************************************)
(* C31: the attempt counter (the ref and the state attempts, which agree)  *)
(* is 0 initially and whenever the status is connected; it rises only by   *)
(* one, in a step that scheduled a reconnect, and falls only to 0, at a    *)
(* successful open: so it is non-zero only while the status is             *)
(* disconnected or connecting, after a reconnect was scheduled since the   *)
(* last open.                                                              *)
(***************************************************************************)
C31_ConnectedImpliesNoAttempts ==
    /\ [](attempts = attemptsRef)
    /\ [](lastOp.op = "init" => attemptsRef = 0)
    /\ [](status = STATUS.CONNECTED => attemptsRef = 0)
    /\ [](attemptsRef # 0 => status \in {STATUS.DISCONNECTED, STATUS.CONNECTING})
    /\ [][CounterStep]_vars

\* An open event that resets a counter two reconnects had raised.
C31_Witness ==
    /\ lastOp.op = "open"
    /\ lastOp.prevAttempts = 2
    /\ status = STATUS.CONNECTED
    /\ attempts = 0

\* a close event of the held transport, or a connect() whose construction
\* of the transport threw
CloseOrConstructionFailure(op) == op.op = "close" \/ (op.connectRan /\ ~urlOk)

(***************************************************************************)
(* C32: with shouldReconnect false no reconnect timer is ever scheduled    *)
(* and the attempt counter stays 0; a close event or a construction        *)
(* failure leaves the status disconnected with no transport held, and the  *)
(* status then leaves disconnected only in a step of connect() or of a     *)
(* send() that ran connect().                                              *)
(***************************************************************************)
C32_NoReconnectWhenDisabled ==
    /\ [](~shouldReconnect =>
             /\ timers = {}
             /\ reconnectTimerRef = 0
             /\ attemptsRef = 0
             /\ attempts = 0
             /\ ~lastOp.scheduled)
    /\ []((~shouldReconnect /\ CloseOrConstructionFailure(lastOp)) =>
             status = STATUS.DISCONNECTED /\ wsRef = 0)
    /\ [][(~shouldReconnect /\ phase = "mounted" /\ status = STATUS.DISCONNECTED
              /\ status' # STATUS.DISCONNECTED) =>
             /\ lastOp'.op \in {"connect", "send"}
             /\ lastOp'.connectRan]_vars

\* Reconnection disabled: the transport closed, nothing was scheduled, and a
\* later send() started the second connection.
C32_Witness ==
    /\ ~shouldReconnect
    /\ Len(sockets) = 2
    /\ sockets[1].readyState = CLOSED
    /\ lastOp.op = "send"
    /\ lastOp.connectRan
    /\ lastOp.prevStatus = STATUS.DISCONNECTED
    /\ status = STATUS.CONNECTING
    /\ wsRef = 2
    /\ ~preventRequested

\* a close event whose onClose callback called connect()
ReentrantClose == lastOp.op = "close" /\ lastOp.called = "onClose" /\ lastOp.connectRan

(***************************************************************************)
(* C33: when the consumer's close callback calls connect() while the close *)
(* event is handled, the close handler finishes with status connecting,    *)
(* exactly one live transport, the one that connect() created, held,       *)
(* attached and not closed, and no reconnect timer pending.                *)
(***************************************************************************)
C33_ReentrantConnectIsSafe ==
    ReentrantClose =>
        /\ status = STATUS.CONNECTING
        /\ wsRef = Len(sockets)
        /\ wsRef # 0
        /\ sockets[wsRef] = [readyState |-> CONNECTING, attached |-> TRUE]
        /\ LiveSockets = {wsRef}
        /\ timers = {}
        /\ reconnectTimerRef = 0

(***************************************************************************)
(* C34: payloads reach the transport in the order in which send() accepted *)
(* them: the transmitted payloads are in the order of their acceptance and *)
(* none of them was accepted later than a payload that still waits in the  *)
(* outbound queue.                                                         *)
(***************************************************************************)
C34_TransmittedInAcceptanceOrder ==
    /\ StrictlyIncreasingIds(received)
    /\ \A i \in 1 .. Len(received), j \in 1 .. Len(outboundQueueRef) :
          received[i].id < outboundQueueRef[j].id

\* the content of a chat frame, given event.data: the text itself, or the
\* content property of the object it spells
ContentOf(d) == IF "spells" \in DOMAIN d THEN Get(d.spells, "content") ELSE d

\* the contents of the chat frames the browser dispatched, in arrival order
FrameContents == [i \in 1 .. Len(reported) |-> ContentOf(reported[i].event.data)]

\* the contents of the display records made from inbound frames, in list order
ShownContents ==
    LET shown == SelectSeq(app.messages, LAMBDA m : m.id.k = "srv")
    IN  [i \in 1 .. Len(shown) |-> shown[i].content]

(***************************************************************************)
(* C35: in App every inbound chat frame results in exactly one appended    *)
(* display record, in arrival order: the contents of the records made      *)
(* from inbound frames are the contents of the frames that arrived, also   *)
(* when two frames arrive before a render and when consecutive text        *)
(* frames carry the same text.                                             *)
(***************************************************************************)
C35_OneRecordPerFrame == app.effectsRan => ShownContents = FrameContents

\* at most one reconnect timer, pending only while disconnected with no
\* transport held; a transport held and no timer while connecting or connected
TimerOrTransport ==
    /\ Cardinality(timers) <= 1
    /\ timers # {} =>
          /\ status = STATUS.DISCONNECTED
          /\ wsRef = 0
          /\ \A t \in timers : t.id = reconnectTimerRef
    /\ status \in {STATUS.CONNECTING, STATUS.CONNECTED} =>
          /\ wsRef # 0
          /\ timers = {}
          /\ reconnectTimerRef = 0

\* C36 as stated: in every reachable state at most one reconnect timer is
\* pending, a pending timer implies status disconnected and no transport
\* held, and status connecting or connected implies a transport held and no
\* timer pending.
C36_Original == TimerOrTransport

(***************************************************************************)
(* C36, amended: until the cleanup of the mount effect has run, at most    *)
(* one reconnect timer is pending, a pending timer implies status          *)
(* disconnected and no transport held, and status connecting or connected  *)
(* implies a transport held and no timer pending.  (The cleanup drops the  *)
(* transport and leaves the status as it was.)                             *)
(***************************************************************************)
C36_TimerXorTransportWhileMounted == phase # "unmounted" => TimerOrTransport

\* The second reconnect timer pending after the second close event.
C36_Witness ==
    /\ phase = "mounted"
    /\ lastOp.op = "close"
    /\ Cardinality(timers) = 1
    /\ attemptsRef = 2
    /\ status = STATUS.DISCONNECTED
    /\ wsRef = 0

\* the ids of the records of a list
Ids(msgs) == {msgs[i].id : i \in 1 .. Len(msgs)}

\* every entry of the pending mapping points at its optimistic record
PendingMapValid ==
    \A c \in DOMAIN app.pendingIndexRef :
        LET idx == app.pendingIndexRef[c] IN
        /\ idx \in 1 .. Len(app.messages)
        /\ app.messages[idx].id = c
        /\ app.messages[idx].pending

\* the step in which the history fetch settles: the list stays, or a list
\* that is only the welcome record is replaced by the history, or history
\* records with ids the list does not have are appended, each once
HistoryStep ==
    (~app.historyLoaded /\ app'.historyLoaded) =>
        LET prev == app.messages
            next == app'.messages
            added == SubSeq(next, Len(prev) + 1, Len(next))
        IN  \/ next = prev
            \/ /\ prev = <<Welcome>>
               /\ Ids(next) = {Word("h", 1), Word("h", 2)}
               /\ Len(next) = 2
            \/ /\ prev # <<Welcome>>
               /\ Len(next) > Len(prev)
               /\ SubSeq(next, 1, Len(prev)) = prev
               /\ Ids(added) \subseteq {Word("h", 1), Word("h", 2)}
               /\ Ids(added) \cap Ids(prev) = {}
               /\ Cardinality(Ids(added)) = Len(added)
               /\ app'.pendingIndexRef = app.pendingIndexRef

(***************************************************************************)
(* C37: in App, for every correlation id in the pending mapping the mapped *)
(* index is a position of the message list, and the record there carries   *)
(* that id and pending true, after any interleaving of optimistic sends,   *)
(* inbound messages, acknowledgements and the history load; the history    *)
(* load either replaces a list that is only the welcome record or appends  *)
(* the history records whose id the list does not have, never duplicating  *)
(* an id.                                                                  *)
(***************************************************************************)
C37_PendingMapPointsAtItsRecords == []PendingMapValid /\ [][HistoryStep]_vars

\* History settled behind two optimistic records and a relayed message that
\* has the id of the first history record: only the second was appended,
\* and both pending entries still point at their records.
C37_Witness ==
    /\ app.historyLoaded
    /\ app.last.op = "history"
    /\ Len(app.messages) = 5
    /\ DOMAIN app.pendingIndexRef = {ClientId(1), ClientId(2)}
    /\ app.messages[4].id = Word("h", 1)
    /\ app.messages[5].id = Word("h", 2)
    /\ PendingMapValid

\* an acknowledgement tagged c arrives while no pending optimistic record is
\* registered under c (c was never sent, or was acknowledged before): the
\* message list stays as it is
UnmatchedAckIgnored(c, srv) ==
    (Stored(Ack(c, srv)) /\ c \notin DOMAIN app.pendingIndexRef)
        => app'.messages = app.messages

(***************************************************************************)
(* C38: acknowledgement handling is idempotent and never invents records:  *)
(* an acknowledgement whose clientId matches no pending optimistic record, *)
(* because none was sent under it or because the same acknowledgement was  *)
(* processed before, leaves the message list unchanged.                    *)
(***************************************************************************)
C38_AckIdempotent ==
    [][\A n \in 1 .. MaxSends + 1 : UnmatchedAckIgnored(ClientId(n), Word("srv", 9))]_vars

\* disconnected, nothing held, nothing pending, not manually closed
Idle ==
    /\ phase = "mounted"
    /\ status = STATUS.DISCONNECTED
    /\ wsRef = 0
    /\ timers = {}
    /\ reconnectTimerRef = 0
    /\ ~manualCloseRef

\* what disconnect({ preventReconnect: false }) leaves behind
DisconnectKeepEffect ==
    lastOp'.op = "disconnectKeep" =>
        /\ Idle'
        /\ Len(sockets') = Len(sockets)
        /\ \A s \in 1 .. Len(sockets') : ~sockets'[s].attached
        /\ wsRef # 0 => sockets'[wsRef].readyState \in {CLOSING, CLOSED}
        /\ ~lastOp'.scheduled /\ ~lastOp'.connectRan
        /\ UNCHANGED <<attemptsRef, outboundQueueRef, received>>

\* from an idle hook only connect() or a send() starts a connection attempt:
\* any other step creates no transport and no timer and leaves the status
IdleStaysIdle ==
    (Idle /\ lastOp'.op \notin {"connect", "send"}) =>
        /\ status' = STATUS.DISCONNECTED
        /\ wsRef' = 0
        /\ timers' = {}
        /\ Len(sockets') = Len(sockets)
        /\ ~lastOp'.connectRan
        /\ ~lastOp'.scheduled

(***************************************************************************)
(* C39: disconnect({ preventReconnect: false }) closes the transport and   *)
(* leaves status disconnected, no reconnect timer and the manual-close     *)
(* flag false; the closed transport's handlers are detached, so whatever   *)
(* the transport reports afterwards, and also with reconnection enabled,   *)
(* no timer and no transport is created until connect() or a send().       *)
(***************************************************************************)
C39_DisconnectKeepEndsIdle == [][DisconnectKeepEffect]_vars /\ [][IdleStaysIdle]_vars

\* Reconnection enabled: the only transport was closed by
\* disconnect({ preventReconnect: false }), reported close, and nothing was
\* scheduled.
C39_Witness ==
    /\ shouldReconnect
    /\ Idle
    /\ ~preventRequested
    /\ lastOp.op = "closeDetached"
    /\ Len(sockets) = 1
    /\ sockets[1] = [readyState |-> CLOSED, attached |-> FALSE]
    /\ attemptsRef = 0

\* a send() of a serializable payload while a reconnect timer is pending
SendWhileTimerPending ==
    /\ phase = "mounted"
    /\ timers # {}
    /\ status = STATUS.DISCONNECTED
    /\ wsRef = 0
    /\ ~manualCloseRef
    /\ lastOp'.op = "send"

\* the payload went to the back of the queue and connect() ran
EnqueuedAndConnectRan ==
    /\ outboundQueueRef' =
           Append(outboundQueueRef,
                  Serialize([id |-> nextMsg,
                             kind |-> IF nextMsg % 2 = 1 THEN "string" ELSE "object"]))
    /\ received' = received
    /\ ~lastOp'.ret
    /\ lastOp'.connectRan

\* one attempt, at once: a fresh connecting transport, no timer left, the
\* counters as they were
ImmediateAttempt ==
    /\ status' = STATUS.CONNECTING
    /\ Len(sockets') = Len(sockets) + 1
    /\ wsRef' = Len(sockets')
    /\ sockets'[wsRef'] = [readyState |-> CONNECTING, attached |-> TRUE]
    /\ LiveSockets' = {wsRef'}
    /\ timers' = {}
    /\ reconnectTimerRef' = 0
    /\ attemptsRef' = attemptsRef
    /\ attempts' = attempts

\* the construction threw: the old timer is gone and connect's catch has
\* scheduled at most one new one, counting one more attempt
FailedAttempt ==
    /\ status' = STATUS.DISCONNECTED
    /\ wsRef' = 0
    /\ sockets' = sockets
    /\ timers' \cap timers = {}
    /\ IF lastOp'.scheduled
       THEN /\ Cardinality(timers') = 1
            /\ attemptsRef' = attemptsRef + 1
       ELSE /\ timers' = {}
            /\ attemptsRef' = attemptsRef

\* C40 as stated
C40_Original ==
    [][SendWhileTimerPending => (EnqueuedAndConnectRan /\ ImmediateAttempt)]_vars

(***************************************************************************)
(* C40 amended: a send() issued while a reconnect timer is pending         *)
(* enqueues the payload, returns false and runs connect() at once, which   *)
(* cancels the pending timer.  When the transport is constructed, exactly  *)
(* one connecting transport results, no timer is pending and the attempt   *)
(* counters are unchanged.  When the construction throws, the hook stays   *)
(* disconnected and connect's catch schedules the next retry, counting one *)
(* more attempt, if the retry budget allows.                               *)
(***************************************************************************)
C40_SendSkipsBackoff ==
    /\ [][(SendWhileTimerPending /\ urlOk) =>
             (EnqueuedAndConnectRan /\ ImmediateAttempt)]_vars
    /\ [][(SendWhileTimerPending /\ ~urlOk) =>
             (EnqueuedAndConnectRan /\ FailedAttempt)]_vars

\* The first transport closed and a retry was scheduled (attempt 1); a send
\* then connected at once: second transport connecting, no timer, counter
\* still 1, the payload queued.
C40_Witness ==
    /\ urlOk
    /\ shouldReconnect
    /\ lastOp.op = "send"
    /\ lastOp.connectRan
    /\ lastOp.prevStatus = STATUS.DISCONNECTED
    /\ lastOp.prevAttempts = 1
    /\ status = STATUS.CONNECTING
    /\ Len(sockets) = 2 /\ wsRef = 2
    /\ timers = {}
    /\ attemptsRef = 1
    /\ Len(outboundQueueRef) = 1

=============================================================================
